---- MODULE Spec2Model ----
(***************************************************************************)
(* A model of pdf-mangler (src/pdf_mangler): the Mangler object, its       *)
(* content-stream lexer (mangle_stream), the text mangler (text_utils) and *)
(* the path mangler (mangle_path / tweak_num).                             *)
(*                                                                         *)
(* Bytes are one-character strings and byte strings are sequences of them. *)
(* Numbers are fixed-point integers: the value v stands for v / Scale.     *)
(* A function that draws from the random module is modelled by the set of  *)
(* values it can return.                                                   *)
(***************************************************************************)
EXTENDS Integers, Sequences, FiniteSets, TLC

VARIABLES
    pc,          \* position of the caller of the operation under study
    num_text,    \* tweak_num: the bytes of the numeral being rewritten
    max_tweak,   \* tweak_num: its max_tweak argument (fixed-point)
    new_num,     \* tweak_num: the bytes it returned
    sampled,     \* tweak_num: the value new_val it sampled
    text,        \* replace_text / replace_bytes / get_font_glyphs: the argument
    char_cats,   \* replace_text / replace_bytes: the category map in force
    random_text, \* replace_text / replace_bytes / get_font_glyphs: the result
    config,      \* Mangler._config: the toggles and tuning parameters
    state,       \* Mangler.state: point, font, page, page_dims, visited_streams
    font_map,    \* Mangler.font_map: font identity -> category map
    resources,   \* mangle_stream: page_or_xobj.Resources.Font, name -> identity
    stream,      \* mangle_stream: the bytes of stream.get_stream_buffer()
    b_pos,       \* mangle_stream: the 1-based index of next_byte in stream
    new_b,       \* mangle_stream: the bytes written to the new buffer
    command,     \* mangle_stream: the command accumulated so far
    prev_delim,  \* mangle_stream: the split point in command (Python offset)
    c_pos,       \* mangle_stream: the length of command
    is_comment,  \* mangle_stream: inside a comment
    is_string_literal, \* mangle_stream: inside a string literal
    last_tok,    \* the token mangle_stream dispatched last (history)
    pdf,         \* Mangler._pdf: the document held, as opened and since mangled
    hash_name,   \* Mangler.hash_name
    event,       \* how the last operation on the Mangler ended (history)
    saved,       \* the files save() has written: name and source file
    counter,     \* mangle_pdf: the pages its loop has been through
    runs,        \* the calls of mangle_pdf that have returned (history)
    updater,     \* Mangler.updater: whether the caller installed one
    cancel,      \* what updater.WasCancelled() answers when asked
    updates,     \* the arguments of updater.Update in this mangle_pdf (history)
    passes,      \* how often each stream of the document went through
                 \* mangle_stream (history)
    cmap_stream, \* map_unicode: the tokens of the bfrange block of its stream
    forward_map, \* map_unicode: the forward map built, or the exception
    graph,       \* the outline links and the /XObject resources of the document
    stack        \* the calls of mangle_outlines and mangle_references under way

numVars == <<num_text, max_tweak, new_num, sampled>>
textVars == <<text, char_cats, random_text>>
manglerVars == <<config, state, font_map>>
lexVars == <<resources, stream, b_pos, new_b, command, prev_delim, c_pos,
             is_comment, is_string_literal, last_tok>>
callerVars == <<updater, cancel, updates, passes>>
docVars == <<pdf, hash_name, event, saved, counter, runs, callerVars>>
cmapVars == <<cmap_stream, forward_map>>
walkVars == <<graph, stack>>
vars == <<pc, numVars, textVars, manglerVars, lexVars, docVars, cmapVars, walkVars>>

----------------------------------------------------------------------------
(* Bounds of the model *)

\* number of decimal places of the fixed-point numbers
DecPlaces == 1
\* longest numeral text given to tweak_num
MaxNumLen == 4
\* longest character string given to replace_text
MaxTextLen == 3
\* longest operand span given to replace_bytes
MaxOperandLen == 6
\* most commands in a content stream given to mangle_stream
MaxItems == 2
\* longest content stream over the bytes the lexer branches on
MaxLexLen == 4
\* the different rewritings of one stream the random choices can produce
MaxRewrites == 2
\* most calls of mangle_pdf on one Mangler
MaxRuns == 2
\* most entries in a bfrange block
MaxEntries == 2
\* most hex digits in a hex string
MaxHexLen == 4
\* most glyph names in a CharSet
MaxNames == 2

----------------------------------------------------------------------------
(* Arithmetic helpers *)

RECURSIVE Pow10(_)
Pow10(n) == IF n <= 0 THEN 1 ELSE 10 * Pow10(n - 1)

Scale == Pow10(DecPlaces)

AbsI(x) == IF x < 0 THEN -x ELSE x
MaxI(a, b) == IF a >= b THEN a ELSE b
MinI(a, b) == IF a <= b THEN a ELSE b

DIGITS == <<"0", "1", "2", "3", "4", "5", "6", "7", "8", "9">>
DigitSet == {DIGITS[i] : i \in 1..10}
DigitVal(c) == CHOOSE d \in 0..9 : DIGITS[d + 1] = c

\* str(n) for an integer n >= 0
RECURSIVE IntToBytes(_)
IntToBytes(n) ==
    IF n < 10 THEN <<DIGITS[n + 1]>>
    ELSE IntToBytes(n \div 10) \o <<DIGITS[(n % 10) + 1]>>

RECURSIVE Spaces(_)
Spaces(n) == IF n <= 0 THEN <<>> ELSE <<" ">> \o Spaces(n - 1)

RECURSIVE Zeros(_)
Zeros(n) == IF n <= 0 THEN <<>> ELSE <<"0">> \o Zeros(n - 1)

\* right-justify in a field of at least w bytes (Python's format width)
PadLeft(s, w) == Spaces(w - Len(s)) \o s

----------------------------------------------------------------------------
(* num_re = rb"\-?\d+\.?\d*" and float() *)

IsDigit(s, i) == i >= 1 /\ i <= Len(s) /\ s[i] \in DigitSet

\* the first index >= i that holds no digit
RECURSIVE SkipDigits(_, _)
SkipDigits(s, i) == IF IsDigit(s, i) THEN SkipDigits(s, i + 1) ELSE i

\* num_re.match at the 1-based index i: the index after the match, 0 when
\* the pattern does not match there
MatchNum(s, i) ==
    LET j == IF i <= Len(s) /\ s[i] = "-" THEN i + 1 ELSE i
    IN  IF ~IsDigit(s, j) THEN 0
        ELSE LET k == SkipDigits(s, j)
             IN  IF k <= Len(s) /\ s[k] = "." THEN SkipDigits(s, k + 1) ELSE k

\* the value of a run of digits
RECURSIVE DigitsVal(_)
DigitsVal(s) ==
    IF s = <<>> THEN 0
    ELSE 10 * DigitsVal(SubSeq(s, 1, Len(s) - 1)) + DigitVal(s[Len(s)])

\* float(text) of a text num_re matched, as a fixed-point number. The sign
\* of -0.0 is lost, as it is to the code's test  num < 0.
ParseFloat(s) ==
    LET neg  == s[1] = "-"
        j    == IF neg THEN 2 ELSE 1
        k    == SkipDigits(s, j)
        ip   == DigitsVal(SubSeq(s, j, k - 1))
        fr   == IF k <= Len(s) THEN SubSeq(s, k + 1, Len(s)) ELSE <<>>
        frv  == DigitsVal(SubSeq(fr \o Zeros(DecPlaces - Len(fr)), 1, DecPlaces))
        mag  == ip * Scale + frv
    IN  IF neg THEN -mag ELSE mag

\* the number of digits after the decimal point of a matched text
FracLen(s) ==
    LET j == IF s[1] = "-" THEN 2 ELSE 1
        k == SkipDigits(s, j)
    IN  IF k <= Len(s) THEN Len(s) - k ELSE 0

----------------------------------------------------------------------------
(* Mangler.tweak_num *)

\* int(log10(abs(num))) + 1 for abs(num) >= 1: the digits of the integer part
RECURSIVE IntDigits(_)
IntDigits(n) == IF n < 10 THEN 1 ELSE 1 + IntDigits(n \div 10)

\* random.uniform(a, b): a + (b - a) * random(), on the fixed-point grid
Uniform(a, b) == MinI(a, b)..MaxI(a, b)

\* f"{int(new_val):{width}d}": int() truncates towards zero
FormatInt(new_val, width) ==
    LET n == AbsI(new_val) \div Scale
        s == (IF new_val < 0 /\ n > 0 THEN <<"-">> ELSE <<>>) \o IntToBytes(n)
    IN  PadLeft(s, width)

\* round a fixed-point magnitude to n_dec decimals, half to even;
\* the result counts units of 10^-n_dec
RoundTo(mag, n_dec) ==
    IF n_dec >= DecPlaces THEN mag * Pow10(n_dec - DecPlaces)
    ELSE LET unit == Pow10(DecPlaces - n_dec)
             q    == mag \div unit
             r    == mag % unit
         IN  IF 2 * r > unit \/ (2 * r = unit /\ q % 2 = 1) THEN q + 1 ELSE q

\* f"{new_val:{w}.{n_dec}f}" for n_dec >= 1
FormatFixed(new_val, w, n_dec) ==
    LET m    == RoundTo(AbsI(new_val), n_dec)
        ip   == m \div Pow10(n_dec)
        fp   == IntToBytes(m % Pow10(n_dec))
        s    == (IF new_val < 0 THEN <<"-">> ELSE <<>>)
                \o IntToBytes(ip) \o <<".">> \o Zeros(n_dec - Len(fp)) \o fp
    IN  PadLeft(s, w)

\* (mutant) the bound lets the tweak reach the next power of ten
TweakUpperPosOffByOne(num, mt, digits) == MinI(num + mt, Pow10(digits) * Scale)

\* the upper bound of a non-negative number's tweak: 10**digits - 1
TweakUpperPos(num, mt, digits) == MinI(num + mt, (Pow10(digits) - 1) * Scale)

\* digits in tweak_num: the number of digits of the integer part of num
DigitsOf(num) == IF AbsI(num) >= Scale THEN IntDigits(AbsI(num) \div Scale) ELSE 1

\* the values new_val = random.uniform(lower, upper) can take in
\* tweak_num(num, max_tweak, width)
TweakSamples(num, mt) ==
    LET digits == DigitsOf(num)
        lower  == IF num >= 0
                  THEN MaxI((Pow10(digits - 1) + 1) * Scale, num - mt)
                  ELSE MaxI(num - mt, (1 - Pow10(digits)) * Scale)
        upper  == IF num >= 0
                  THEN TweakUpperPos(num, mt, digits)
                  ELSE MinI((0 - Pow10(digits - 1) - 1) * Scale, num + mt)
    IN  Uniform(lower, upper)

\* the bytes tweak_num returns for the sampled value new_val
TweakFormat(new_val, num, width) ==
    LET n_dec == width - DigitsOf(num) - (IF num < 0 THEN 1 ELSE 0) - 1
    IN  IF n_dec < 1 THEN FormatInt(new_val, width)
        ELSE FormatFixed(new_val, width - 1, n_dec)

\* the byte strings tweak_num(num, max_tweak, width) can return
tweak_num(num, mt, width) ==
    {TweakFormat(new_val, num, width) : new_val \in TweakSamples(num, mt)}

----------------------------------------------------------------------------
(* text_utils: characters, categories and category maps *)

\* A character is a string; a text (Python str) is a sequence of characters.
\* The Latin letters are represented by a and b, the capitals by A, the
\* digits by 0 and 1; U+00E7 (c with cedilla) is the Latin-1 letter outside
\* ASCII. A category is the pair of letters unicodedata.category returns.
Category(c) ==
    CASE c \in {"a", "b", "U+00E7"} -> <<"L", "l">>
      [] c \in {"A"} -> <<"L", "u">>
      [] c \in DigitSet -> <<"N", "d">>
      [] c \in {"(", "["} -> <<"P", "s">>
      [] c \in {")", "]"} -> <<"P", "e">>
      [] c \in {"-"} -> <<"P", "d">>
      [] c \in {".", "%", "/", "'", "*"} -> <<"P", "o">>
      [] c \in {"<", ">"} -> <<"S", "m">>
      [] c \in {" "} -> <<"Z", "s">>
      [] OTHER -> <<"C", "c">>

\* punctuation, mark, separator, or "other"
PASS_CATS == {"P", "M", "Z", "C", "S"}

Ll == <<"L", "l">>
Lu == <<"L", "u">>
Nd == <<"N", "d">>

\* LATIN_1["default"]
LATIN_1_default == (Ll :> {"a", "b"}) @@ (Lu :> {"A"}) @@ (Nd :> {"0", "1"})

\* LATIN_1: the Adobe Latin-1 character set by category, without the
\* pass-through categories
LATIN_1 ==
    [ cats    |-> (Ll :> {"a", "b", "U+00E7"}) @@ (Lu :> {"A"}) @@ (Nd :> {"0", "1"}),
      default |-> LATIN_1_default,
      ToUnicode   |-> <<>>,
      FromUnicode |-> <<>>,
      cmap        |-> FALSE ]

\* unicodedata.category(char) inside categorize_glyphs: a glyph of several
\* characters raises TypeError and is filed under Cs
GlyphCategory(g) == IF Len(g) = 1 THEN Category(g[1]) ELSE <<"C", "s">>

\* (mutant) every letter is filed under Ll, whatever its case
FiledUnderIgnoringCase(g) ==
    IF GlyphCategory(g)[1] = "L" THEN <<"L", "l">> ELSE GlyphCategory(g)

\* the category a glyph is filed under in the map
FiledUnder(g) == GlyphCategory(g)

\* categorize_glyphs: glyphs is a set of glyphs, each a sequence of characters
categorize_glyphs(glyphs) ==
    LET kept == {g \in glyphs : GlyphCategory(g)[1] \notin PASS_CATS}
        keys == {FiledUnder(g) : g \in kept}
        cats == [k \in keys |-> {g[1] : g \in {h \in kept : FiledUnder(h) = k}}]
        dkeys == {k \in keys \cap DOMAIN LATIN_1_default :
                     cats[k] \cap LATIN_1_default[k] # {}}
    IN  [ cats    |-> cats,
          default |-> [k \in dkeys |-> cats[k] \cap LATIN_1_default[k]],
          ToUnicode   |-> <<>>,
          FromUnicode |-> <<>>,
          cmap        |-> FALSE ]

\* the characters replace_text can put in the place of char
ReplaceChar(char, cc) ==
    LET cat == Category(char)
    IN  IF cat[1] \in PASS_CATS THEN {char}
        ELSE IF cat \in DOMAIN cc.cats
        THEN IF cat \in DOMAIN cc.default /\ char \in cc.default[cat]
             THEN cc.default[cat]
             ELSE cc.cats[cat]
        ELSE IF cat \in DOMAIN LATIN_1_default THEN LATIN_1_default[cat]
        ELSE {char}

\* replace_text(text, char_cats): the texts it can return
RECURSIVE replace_text(_, _)
replace_text(t, cc) ==
    IF t = <<>> THEN {<<>>}
    ELSE {<<c>> \o r : c \in ReplaceChar(t[1], cc), r \in replace_text(Tail(t), cc)}

----------------------------------------------------------------------------
(* bytes.decode() and str.encode(): UTF-8 *)

\* U+00E7 is the two bytes C3 A7; an ASCII character is its own byte
EncodeChar(c) == IF c = "U+00E7" THEN <<"xC3", "xA7">> ELSE <<c>>

RECURSIVE Encode(_)
Encode(t) == IF t = <<>> THEN <<>> ELSE EncodeChar(t[1]) \o Encode(Tail(t))

HighBytes == {"xC3", "xA7"}

\* whether decode() succeeds (it raises UnicodeDecodeError otherwise)
RECURSIVE Decodable(_)
Decodable(b) ==
    IF b = <<>> THEN TRUE
    ELSE IF b[1] = "xC3" THEN Len(b) >= 2 /\ b[2] = "xA7" /\ Decodable(SubSeq(b, 3, Len(b)))
    ELSE b[1] \notin HighBytes /\ Decodable(Tail(b))

RECURSIVE Decode(_)
Decode(b) ==
    IF b = <<>> THEN <<>>
    ELSE IF b[1] = "xC3" THEN <<"U+00E7">> \o Decode(SubSeq(b, 3, Len(b)))
    ELSE <<b[1]>> \o Decode(Tail(b))

----------------------------------------------------------------------------
(* replace_bytes *)

\* the outcome of a call: the value returned, or the exception raised
Returned(v) == [ok |-> TRUE, val |-> v]
Raised(e) == [ok |-> FALSE, val |-> e]

\* the first index >= i that holds byte c, stopping at a line feed (which
\* "." does not match); 0 when there is none
RECURSIVE FindClose(_, _, _)
FindClose(s, i, c) ==
    IF i > Len(s) \/ s[i] = "\n" THEN 0
    ELSE IF s[i] = c THEN i
    ELSE FindClose(s, i + 1, c)

\* re.compile(open (.*?) close).finditer: the next match at or after the
\* 1-based index i, as the Python offsets of group 1; no match: start = -1
RECURSIVE NextGroup(_, _, _, _)
NextGroup(s, i, open, close) ==
    IF i > Len(s) THEN [start |-> -1, end |-> -1]
    ELSE IF s[i] = open /\ FindClose(s, i + 1, close) # 0
         THEN [start |-> i, end |-> FindClose(s, i + 1, close) - 1]
         ELSE NextGroup(s, i + 1, open, close)

\* arr[start:end] = new  on a bytearray (Python offsets; a slice past the
\* end is clipped)
Splice(arr, start, end, new) ==
    LET st == MinI(start, Len(arr))
        en == MaxI(st, MinI(end, Len(arr)))
    IN  SubSeq(arr, 1, st) \o new \o SubSeq(arr, en + 1, Len(arr))

\* the loop of replace_bytes from the 1-based index i of text on, rt being
\* random_text so far
RECURSIVE ReplaceBytesFrom(_, _, _, _)
ReplaceBytesFrom(t, rt, i, cc) ==
    LET m == NextGroup(t, i, "(", ")")
        payload == SubSeq(t, m.start + 1, m.end)
    IN  IF m.start < 0 THEN {Returned(rt)}
        ELSE IF ~Decodable(payload) THEN {Raised("UnicodeDecodeError")}
        ELSE UNION { ReplaceBytesFrom(t, Splice(rt, m.start, m.end, Encode(r)),
                                      m.end + 2, cc) :
                     r \in replace_text(Decode(payload), cc) }

\* replace_bytes(text, char_cats): its outcomes
replace_bytes(t, cc) == ReplaceBytesFrom(t, t, 1, cc)

----------------------------------------------------------------------------
(* get_font_glyphs *)

\* GLYPHLIST, two of its names
GLYPHLIST == (<<"A">> :> "A") @@ (<<"a">> :> "a")

\* charset.split("/")[1:]: the names after each slash; cur is the name
\* being read and first tells that no slash has been met yet
RECURSIVE SplitNames(_, _, _)
SplitNames(charset, cur, first) ==
    IF charset = <<>> THEN (IF first THEN <<>> ELSE <<cur>>)
    ELSE IF charset[1] = "/"
    THEN (IF first THEN <<>> ELSE <<cur>>) \o SplitNames(Tail(charset), <<>>, FALSE)
    ELSE SplitNames(Tail(charset), Append(cur, charset[1]), first)

HexDigits == <<"0", "1", "2", "3", "4", "5", "6", "7", "8", "9",
               "A", "B", "C", "D", "E", "F">>

\* int(digits, 16): the number, -1 for ValueError (no digits, or a
\* character that is not a hex digit), -2 for a number of 2^31 or more
RECURSIVE HexInt(_, _)
HexInt(ds, acc) ==
    IF ds = <<>> THEN acc
    ELSE IF \A d \in 1..16 : HexDigits[d] # ds[1] THEN -1
    ELSE LET v == (CHOOSE d \in 1..16 : HexDigits[d] = ds[1]) - 1
         IN  IF acc > (2147483647 - v) \div 16
             THEN (IF HexInt(Tail(ds), 0) = -1 THEN -1 ELSE -2)
             ELSE HexInt(Tail(ds), acc * 16 + v)

\* chr(n) for the code points of the model's characters; every other code
\* point is taken for U+D800
Chr(n) ==
    CASE n = 48 -> "0" [] n = 49 -> "1" [] n = 65 -> "A"
      [] n = 97 -> "a" [] n = 98 -> "b" [] n = 231 -> "U+00E7"
      [] OTHER -> "U+D800"

\* chr(int(digits, 16)): the glyph, or the exception
GlyphOfHex(ds) ==
    LET n == IF ds = <<>> THEN -1 ELSE HexInt(ds, 0)
    IN  IF n = -1 THEN Raised("ValueError")
        ELSE IF n = -2 THEN Raised("OverflowError")
        ELSE IF n >= 1114112 THEN Raised("ValueError")
        ELSE Returned(Chr(n))

\* one turn of the loop of get_font_glyphs: the glyphs the name adds, or
\* the exception that leaves the function
GlyphsOfName(name) ==
    IF name \in DOMAIN GLYPHLIST THEN Returned(<<GLYPHLIST[name]>>)
    ELSE IF \E k \in 1..Len(name) : name[k] = "_" THEN Returned(<<>>)
    ELSE IF name = <<>> THEN Raised("IndexError")
    ELSE IF name[1] = "u"
    THEN LET g == IF Len(name) >= 3 /\ SubSeq(name, 1, 3) = <<"u", "n", "i">>
                  THEN GlyphOfHex(SubSeq(name, 4, Len(name)))
                  ELSE GlyphOfHex(Tail(name))
         IN  IF g.ok THEN Returned(<<g.val>>)
             ELSE IF g.val = "ValueError" THEN Returned(<<>>)
             ELSE g
    ELSE Returned(<<>>)

\* get_font_glyphs over the names left, glyphs being the list so far
RECURSIVE GlyphsFrom(_, _)
GlyphsFrom(names, glyphs) ==
    IF names = <<>> THEN Returned(glyphs)
    ELSE LET g == GlyphsOfName(names[1])
         IN  IF g.ok THEN GlyphsFrom(Tail(names), glyphs \o g.val) ELSE g

\* get_font_glyphs(charset)
get_font_glyphs(charset) == GlyphsFrom(SplitNames(charset, <<>>, TRUE), <<>>)

----------------------------------------------------------------------------
(* replace_hex_bytes and Mangler.mangle_text *)

\* map_unicode, its last step: the category map of a code -> text table.
\* to_unicode is the table in insertion order, a sequence of <<code, text>>;
\* in FromUnicode a later code wins a text mapped twice.
CMapCats(to_unicode) ==
    LET n     == Len(to_unicode)
        codes == {to_unicode[k][1] : k \in 1..n}
        texts == {to_unicode[k][2] : k \in 1..n}
        last(S) == CHOOSE k \in S : \A j \in S : j <= k
        glyph == categorize_glyphs(texts)
    IN  [ cats    |-> glyph.cats,
          default |-> glyph.default,
          ToUnicode   |-> [c \in codes |->
                              to_unicode[last({k \in 1..n : to_unicode[k][1] = c})][2]],
          FromUnicode |-> [t \in texts |->
                              to_unicode[last({k \in 1..n : to_unicode[k][2] = t})][1]],
          cmap        |-> TRUE ]

\* the loop of replace_hex_bytes from the 1-based index pos of text on;
\* i and hex_char are the loop variables the previous match left behind
\* (i = -1: not yet bound)
RECURSIVE ReplaceHexFrom(_, _, _, _, _, _)
ReplaceHexFrom(t, rt, pos, cc, i, hex_char) ==
    LET m  == NextGroup(t, pos, "<", ">")
        n  == m.end - m.start
        i2 == IF n >= 2 THEN m.start + 2 * ((n - 2) \div 2) ELSE i
        h2 == IF n >= 2 THEN SubSeq(t, i2 + 1, i2 + 2) ELSE hex_char
        go(rt2) == ReplaceHexFrom(t, rt2, m.end + 2, cc, i2, h2)
    IN  IF m.start < 0 THEN {Returned(rt)}
        ELSE IF ~cc.cmap THEN go(rt)
        ELSE IF i2 < 0 THEN {Raised("UnboundLocalError")}
        ELSE IF h2 \notin DOMAIN cc.ToUnicode THEN go(rt)
        ELSE UNION { IF r \in DOMAIN cc.FromUnicode
                     THEN go(Splice(rt, i2, i2 + 2, cc.FromUnicode[r]))
                     ELSE go(rt) :
                     r \in replace_text(cc.ToUnicode[h2], cc) }

\* replace_hex_bytes(text, char_cats): its outcomes
replace_hex_bytes(t, cc) == ReplaceHexFrom(t, t, 1, cc, -1, <<>>)

\* mangle_text(operands): its outcomes
mangle_text(operands, cfg, st, fm) ==
    IF ~cfg.text THEN {Returned(operands)}
    ELSE IF st.font \notin DOMAIN fm THEN {Raised("KeyError")}
    ELSE IF "<" \in {operands[k] : k \in 1..MinI(2, Len(operands))}
         THEN replace_hex_bytes(operands, fm[st.font])
         ELSE replace_bytes(operands, fm[st.font])

----------------------------------------------------------------------------
(* Mangler.is_background_line and Mangler.mangle_path *)

\* floor(sqrt(n)) by bisection
RECURSIVE SqrtBetween(_, _, _)
SqrtBetween(n, lo, hi) ==
    IF lo >= hi THEN lo
    ELSE LET mid == (lo + hi + 1) \div 2
         IN  IF mid * mid <= n THEN SqrtBetween(n, mid, hi)
             ELSE SqrtBetween(n, lo, mid - 1)

\* sqrt(x**2 + y**2) of two fixed-point numbers
Hypot(x, y) == SqrtBetween(x * x + y * y, 0, AbsI(x) + AbsI(y))

\* the numerals num_re.finditer finds from the 1-based index i on, each with
\* its value and Python offsets
RECURSIVE FindNumerals(_, _)
FindNumerals(s, i) ==
    IF i > Len(s) THEN <<>>
    ELSE LET e == MatchNum(s, i)
         IN  IF e = 0 THEN FindNumerals(s, i + 1)
             ELSE <<[val |-> ParseFloat(SubSeq(s, i, e - 1)),
                     start |-> i - 1, end |-> e - 1]>> \o FindNumerals(s, e)

\* (mutant) the test without its last case, the shape large in both axes
IsBackgroundLineNoShape(dx, dy, cfg, st) ==
    LET big_x == dx * 100 > st.page_dims[1] * cfg.percent_page_keep * Scale
        big_y == dy * 100 > st.page_dims[2] * cfg.percent_page_keep * Scale
    IN  (big_x /\ dy < 9 * Scale) \/ (big_y /\ dx < 9 * Scale)

\* is_background_line(dx, dy); percent_page_keep counts hundredths
is_background_line(dx, dy, cfg, st) ==
    LET big_x == dx * 100 > st.page_dims[1] * cfg.percent_page_keep * Scale
        big_y == dy * 100 > st.page_dims[2] * cfg.percent_page_keep * Scale
    IN  (big_x /\ dy < 9 * Scale) \/ (big_y /\ dx < 9 * Scale) \/ (big_x /\ big_y)

\* max(min_tweak, magnitude * percent_tweak); percent_tweak counts hundredths
MaxTweakFor(mag, cfg) == MaxI(cfg.min_tweak, (mag * cfg.percent_tweak) \div 100)

\* (mutant) the indices are counted from the last numeral backwards
RECURSIVE TweakEachFromEnd(_, _, _, _)
TweakEachFromEnd(op_arr, ops, ids, mt) ==
    IF ids = <<>> THEN {op_arr}
    ELSE LET o == ops[Len(ops) - ids[1]]
         IN  UNION { TweakEachFromEnd(Splice(op_arr, o.start, o.end, b), ops, Tail(ids), mt) :
                     b \in tweak_num(o.val, mt, o.end - o.start) }

\* op_arr after the numerals ids (Python indices into ops) are rewritten in
\* turn, each at its offsets in the original operands
RECURSIVE TweakEach(_, _, _, _)
TweakEach(op_arr, ops, ids, mt) ==
    IF ids = <<>> THEN {op_arr}
    ELSE LET o == ops[ids[1] + 1]
         IN  UNION { TweakEach(Splice(op_arr, o.start, o.end, b), ops, Tail(ids), mt) :
                     b \in tweak_num(o.val, mt, o.end - o.start) }

PathResult(bytes, point) == [ok |-> TRUE, val |-> bytes, point |-> point]
PathRaised(e, point) == [ok |-> FALSE, val |-> e, point |-> point]

\* (mutant) every operator takes its first two numerals for the new point
NewPointIdsFirstPair(operator) ==
    IF operator \in {<<"l">>, <<"c">>, <<"v">>, <<"y">>} THEN <<0, 1>> ELSE <<>>

\* the indices of the numerals that hold the new current point
NewPointIds(operator) ==
    CASE operator = <<"l">> -> <<0, 1>>
      [] operator = <<"c">> -> <<4, 5>>
      [] operator \in {<<"v">>, <<"y">>} -> <<2, 3>>
      [] OTHER -> <<>>

\* mangle_path(operands, operator): the bytes it can return with the
\* current point it leaves, or the exception it raises
mangle_path(operands, operator, cfg, st) ==
    LET ops == FindNumerals(operands, 1)
        ids == NewPointIds(operator)
    IN  IF ~cfg.paths THEN {PathResult(operands, st.point)}
        ELSE IF operator = <<"m">> THEN
            IF Len(ops) < 2 THEN {PathRaised("IndexError", st.point)}
            ELSE LET pt == <<ops[1].val, ops[2].val>>
                 IN  IF cfg.tweak_start
                     THEN {PathResult(b, pt) :
                             b \in TweakEach(operands, ops,
                                             [k \in 1..Len(ops) |-> k - 1],
                                             cfg.min_tweak)}
                     ELSE {PathResult(operands, pt)}
        ELSE IF operator = <<"r", "e">> THEN
            IF Len(ops) < 4 THEN {PathRaised("IndexError", st.point)}
            ELSE IF is_background_line(AbsI(ops[3].val), AbsI(ops[4].val), cfg, st)
                 THEN {PathResult(operands, st.point)}
                 ELSE {PathResult(b, st.point) :
                         b \in TweakEach(operands, ops, <<0, 1, 2, 3>>,
                                 MaxTweakFor(Hypot(ops[3].val, ops[4].val), cfg))}
        ELSE IF ids = <<>> THEN {PathResult(operands, st.point)}
        ELSE IF Len(ops) < ids[1] + 1 THEN {PathRaised("IndexError", st.point)}
        ELSE IF st.point = <<>> THEN {PathRaised("TypeError", st.point)}
        ELSE IF Len(ops) < ids[2] + 1 THEN {PathRaised("IndexError", st.point)}
        ELSE LET nx == ops[ids[1] + 1].val
                 ny == ops[ids[2] + 1].val
                 x  == AbsI(nx - st.point[1])
                 y  == AbsI(ny - st.point[2])
             IN  IF is_background_line(x, y, cfg, st)
                 THEN {PathResult(operands, <<nx, ny>>)}
                 ELSE {PathResult(b, <<nx, ny>>) :
                         b \in TweakEach(operands, ops, ids,
                                         MaxTweakFor(Hypot(x, y), cfg))}

----------------------------------------------------------------------------
(* map_unicode: the bfrange block *)

\* the tokens of the block between beginbfrange and endbfrange, in order: a
\* hex string <....> of one group of four digits, holding its number, or a
\* square bracket. The position of a token is its index.
Hex(code) == [hex |-> code]
Square(bracket) == [sq |-> bracket]

\* in_angle.finditer(stream, start + 13, end): the positions of the hex
\* strings, in order
RECURSIVE AngleMatches(_, _)
AngleMatches(toks, i) ==
    IF i > Len(toks) THEN <<>>
    ELSE IF "hex" \in DOMAIN toks[i] THEN <<i>> \o AngleMatches(toks, i + 1)
    ELSE AngleMatches(toks, i + 1)

\* next(square_it, None), called once: the first pair of square brackets,
\* or start 0 for None
FirstSquare(toks) ==
    LET opens == {i \in 1..Len(toks) : toks[i] = Square("[") /\
                     \E j \in (i + 1)..Len(toks) : toks[j] = Square("]")}
    IN  IF opens = {} THEN [start |-> 0, end |-> 0]
        ELSE LET o == CHOOSE i \in opens : \A j \in opens : i <= j
             IN  [start |-> o,
                  end |-> CHOOSE j \in (o + 1)..Len(toks) :
                             /\ toks[j] = Square("]")
                             /\ \A k \in (o + 1)..(j - 1) : toks[k] # Square("]")]

\* the for loop over a range whose destinations are taken one by one: k
\* counts the matches angle_it has given out, map_to is the k-th
RECURSIVE MapListed(_, _, _, _, _, _, _)
MapListed(toks, angles, square, from_b, last_b, k, map) ==
    IF from_b > last_b THEN [ok |-> TRUE, k |-> k, map |-> map]
    ELSE IF k > Len(angles) THEN [ok |-> FALSE, val |-> "AttributeError"]
    ELSE IF angles[k] > square.end THEN [ok |-> FALSE, val |-> "IndexError"]
    ELSE MapListed(toks, angles, square, from_b + 1, last_b, k + 1,
                   [c \in DOMAIN map \cup {from_b} |->
                       IF c = from_b THEN toks[angles[k]].hex ELSE map[c]])

\* the while loop of the bfrange block: k counts the matches angle_it has
\* given out, angle is the k-th; map is to_unicode so far
RECURSIVE MapRanges(_, _, _, _, _)
MapRanges(toks, angles, square, k, map) ==
    IF k > Len(angles) THEN Returned(map)
    ELSE IF k + 1 > Len(angles) THEN Raised("AttributeError")
    ELSE LET rs == toks[angles[k]].hex
             re == toks[angles[k + 1]].hex
             no_map_to == k + 2 > Len(angles)
         IN  IF square.start # 0 /\ no_map_to THEN Raised("AttributeError")
             ELSE IF square.start # 0 /\ square.start < angles[k + 2]
             THEN LET r == MapListed(toks, angles, square, rs, re, k + 2, map)
                  IN  IF r.ok THEN MapRanges(toks, angles, square, r.k + 1, r.map)
                      ELSE Raised(r.val)
             ELSE IF rs > re THEN MapRanges(toks, angles, square, k + 3, map)
             ELSE IF no_map_to THEN Raised("AttributeError")
             ELSE MapRanges(toks, angles, square, k + 3,
                            [c \in DOMAIN map \cup (rs..re) |->
                                IF c \in rs..re THEN toks[angles[k + 2]].hex
                                ELSE map[c]])

\* map_unicode on a stream with a bfrange block and no bfchar block: the
\* forward map from code to text, or the exception raised
map_unicode(toks) == MapRanges(toks, AngleMatches(toks, 1), FirstSquare(toks), 1, <<>>)

\* the tokens of an entry as written in the stream
EntryTokens(e) ==
    <<Hex(e.lo), Hex(e.hi)>>
        \o (IF e.listed
            THEN <<Square("[")>> \o [k \in 1..Len(e.dest) |-> Hex(e.dest[k])]
                     \o <<Square("]")>>
            ELSE <<Hex(e.dest[1])>>)

RECURSIVE BlockTokens(_)
BlockTokens(es) == IF es = <<>> THEN <<>> ELSE EntryTokens(es[1]) \o BlockTokens(Tail(es))

----------------------------------------------------------------------------
(* pdf_ops and the dispatch of Mangler.mangle_stream *)

ALL_OPS ==
    { <<"b">>, <<"B">>, <<"b", "*">>, <<"B", "*">>, <<"B", "D", "C">>,
      <<"B", "I">>, <<"B", "M", "C">>, <<"B", "T">>, <<"B", "X">>, <<"c">>,
      <<"c", "m">>, <<"C", "S">>, <<"c", "s">>, <<"d">>, <<"d", "0">>,
      <<"d", "1">>, <<"D", "o">>, <<"D", "P">>, <<"E", "I">>,
      <<"E", "M", "C">>, <<"E", "T">>, <<"E", "X">>, <<"f">>, <<"F">>,
      <<"f", "*">>, <<"G">>, <<"g">>, <<"g", "s">>, <<"h">>, <<"i">>,
      <<"I", "D">>, <<"j">>, <<"J">>, <<"K">>, <<"k">>, <<"l">>, <<"m">>,
      <<"M">>, <<"M", "P">>, <<"n">>, <<"q">>, <<"Q">>, <<"r", "e">>,
      <<"R", "G">>, <<"r", "g">>, <<"r", "i">>, <<"s">>, <<"S">>,
      <<"S", "C">>, <<"s", "c">>, <<"S", "C", "N">>, <<"s", "c", "n">>,
      <<"s", "h">>, <<"T", "*">>, <<"T", "c">>, <<"T", "d">>, <<"T", "D">>,
      <<"T", "f">>, <<"T", "j">>, <<"T", "J">>, <<"T", "L">>, <<"T", "m">>,
      <<"T", "r">>, <<"T", "s">>, <<"T", "w">>, <<"T", "z">>, <<"v">>,
      <<"w">>, <<"W">>, <<"W", "*">>, <<"y">>, <<"'">>, <<"\"">> }

\* x00 stands for the NUL byte
WHITESPACE == {"x00", "\t", "\n", "\f", "\r", " "}
DELIMITERS == {"(", ")", "<", ">", "[", "]", "{", "}", "/", "%"}

FONT_CHANGE == <<"T", "f">>
TEXT_SHOW_OPS == {<<"T", "j">>, <<"T", "J">>, <<"'">>, <<"\"">>}
PATH_CONSTRUCTION_OPS == {<<"m">>, <<"l">>, <<"c">>, <<"v">>, <<"y">>, <<"r", "e">>}
CLIPPING_PATH_OPS == {<<"W">>, <<"W", "*">>}

\* the bytes bytes.split() splits at; x0B stands for the vertical tab
SplitSpace == {" ", "\t", "\n", "\r", "x0B", "\f"}

\* bytes.split(): the runs of bytes between white space
RECURSIVE Split(_)
Split(s) ==
    IF s = <<>> THEN <<>>
    ELSE IF s[1] \in SplitSpace THEN Split(Tail(s))
    ELSE LET rest == Split(Tail(s))
         IN  IF Len(s) >= 2 /\ s[2] \notin SplitSpace
             THEN <<(<<s[1]>> \o rest[1])>> \o Tail(rest)
             ELSE <<(<<s[1]>>)>> \o rest

DispatchResult(bytes, point, font) ==
    [ok |-> TRUE, val |-> bytes, point |-> point, font |-> font]
DispatchRaised(e, point, font) ==
    [ok |-> FALSE, val |-> e, point |-> point, font |-> font]

\* the font-selection branch: the identity of the font the first operand
\* names in the font resources of the page or form; a page or form without
\* font resources raises AttributeError, an unknown name KeyError, and both
\* leave the font as it is
FontChange(operands, st, res) ==
    LET names == Split(operands)
    IN  IF ~res.has_fonts THEN {DispatchResult(operands, st.point, st.font)}
        ELSE IF names = <<>> THEN {DispatchRaised("IndexError", st.point, st.font)}
        ELSE IF ~Decodable(names[1])
             THEN {DispatchRaised("UnicodeDecodeError", st.point, st.font)}
        ELSE IF names[1] \in DOMAIN res.Font
             THEN {DispatchResult(operands, st.point, res.Font[names[1]])}
        ELSE {DispatchResult(operands, st.point, st.font)}

\* the dispatch on an operator found: the operands written to the new
\* stream, with the current point and font left behind
Dispatch(op, operands, cfg, st, fm, res) ==
    IF op = FONT_CHANGE THEN FontChange(operands, st, res)
    ELSE IF op \in TEXT_SHOW_OPS
         THEN {[ok |-> r.ok, val |-> r.val, point |-> st.point, font |-> st.font] :
                 r \in mangle_text(operands, cfg, st, fm)}
    ELSE IF op \in CLIPPING_PATH_OPS /\ cfg.exclude_clip
         THEN {DispatchResult(operands, st.point, st.font)}
    ELSE IF op \in PATH_CONSTRUCTION_OPS
         THEN {[ok |-> r.ok, val |-> r.val, point |-> r.point, font |-> st.font] :
                 r \in mangle_path(operands, op, cfg, st)}
    ELSE {DispatchResult(operands, st.point, st.font)}

----------------------------------------------------------------------------
(* The pdf setter's initial values and the loop of Mangler.mangle_stream *)

\* self.state as the pdf setter leaves it (point None is the empty tuple)
InitialState ==
    [ point |-> <<>>, font |-> "default", page |-> 0,
      page_dims |-> <<612, 792>>, visited_streams |-> <<>> ]

\* self.font_map as the pdf setter leaves it
InitialFontMap == [f \in {"default"} |-> LATIN_1]

\* the values of the configuration file the model reads: mangle.content,
\* mangle.text, mangle.paths and the path section; the two percentages
\* count hundredths
DocConfig(text_on, paths_on, start_on, least_tweak) ==
    [ content |-> TRUE, text |-> text_on, paths |-> paths_on,
      tweak_start |-> start_on, min_tweak |-> least_tweak,
      percent_tweak |-> 1, percent_page_keep |-> 50, exclude_clip |-> TRUE,
      metadata |-> TRUE ]

ContentOff == [DocConfig(FALSE, FALSE, FALSE, 0) EXCEPT !.content = FALSE]

\* a Mangler that holds no document yet
NoPdf == [unset |-> TRUE]

\* page_or_xobj without /Resources or without /Font, or None
NoFontResources == [has_fonts |-> FALSE, Font |-> <<>>]

\* no token dispatched yet
NoToken ==
    [op |-> <<>>, operands |-> <<>>, out |-> <<>>, point |-> <<>>, raised |-> ""]

\* command[k:] and command[:k] of Python
SliceFrom(c, k) == SubSeq(c, k + 1, Len(c))
SliceTo(c, k) == SubSeq(c, 1, MinI(k, Len(c)))

next_byte == stream[b_pos]

\* the two flags after the tests at the top of the loop body
comment_now == is_comment \/ next_byte = "%"
string_now == is_string_literal \/ (next_byte # "%" /\ next_byte = "(")

\* the loop body reaches the test for an operator and finds one
OperatorFound ==
    /\ ~comment_now /\ ~string_now
    /\ next_byte \in WHITESPACE \cup DELIMITERS
    /\ SliceFrom(command, prev_delim) \in ALL_OPS

\* one turn of the loop that dispatches no operator
ScanByte ==
    /\ pc = "loop" /\ b_pos <= Len(stream)
    /\ ~OperatorFound
    /\ is_comment' = (comment_now /\ next_byte \notin {"\n", "\r", "\f"})
    /\ is_string_literal' =
          IF comment_now THEN string_now ELSE (string_now /\ next_byte # ")")
    /\ prev_delim' =
          IF comment_now
          THEN IF next_byte \in {"\n", "\r", "\f"} THEN c_pos + 1 ELSE prev_delim
          ELSE IF string_now
          THEN IF next_byte = ")" THEN c_pos + 1 ELSE prev_delim
          ELSE IF next_byte \in WHITESPACE \cup DELIMITERS THEN c_pos + 1
          ELSE prev_delim
    /\ command' = Append(command, next_byte)
    /\ c_pos' = c_pos + 1
    /\ b_pos' = b_pos + 1
    /\ UNCHANGED <<pc, new_b, last_tok, resources, stream, manglerVars>>
    /\ UNCHANGED <<numVars, textVars, docVars, cmapVars, walkVars>>

\* one turn of the loop that dispatches an operator and writes its command
EmitToken ==
    /\ pc = "loop" /\ b_pos <= Len(stream)
    /\ OperatorFound
    /\ LET op == SliceFrom(command, prev_delim)
           operands == SliceTo(command, prev_delim)
       IN  \E r \in Dispatch(op, operands, config, state, font_map, resources) :
              /\ r.ok
              /\ new_b' = new_b \o r.val \o op
              /\ state' = [state EXCEPT !.point = r.point, !.font = r.font]
              /\ last_tok' = [op |-> op, operands |-> operands, out |-> r.val,
                              point |-> state.point, raised |-> ""]
    /\ command' = <<next_byte>>
    /\ c_pos' = 1
    /\ prev_delim' = 1
    /\ b_pos' = b_pos + 1
    /\ UNCHANGED <<pc, is_comment, is_string_literal, resources, stream,
                   config, font_map, numVars, textVars, docVars, cmapVars, walkVars>>

\* one turn of the loop in which the dispatch raises: mangle_stream is left
\* by the exception
RaiseInToken ==
    /\ pc = "loop" /\ b_pos <= Len(stream)
    /\ OperatorFound
    /\ LET op == SliceFrom(command, prev_delim)
           operands == SliceTo(command, prev_delim)
       IN  \E r \in Dispatch(op, operands, config, state, font_map, resources) :
              /\ ~r.ok
              /\ state' = [state EXCEPT !.point = r.point, !.font = r.font]
              /\ last_tok' = [op |-> op, operands |-> operands, out |-> <<>>,
                              point |-> state.point, raised |-> r.val]
    /\ pc' = "raised"
    /\ UNCHANGED <<new_b, command, c_pos, prev_delim, b_pos, is_comment,
                   is_string_literal, resources, stream, config, font_map,
                   numVars, textVars, docVars, cmapVars, walkVars>>

\* the end of the stream: the last command is written and the bytes returned
ReturnStream ==
    /\ pc = "loop" /\ b_pos > Len(stream)
    /\ new_b' = new_b \o command
    /\ pc' = "done"
    /\ UNCHANGED <<command, c_pos, prev_delim, b_pos, is_comment,
                   is_string_literal, last_tok, resources, stream, manglerVars,
                   numVars, textVars, docVars, cmapVars, walkVars>>

----------------------------------------------------------------------------
(* The Mangler object: filename and pdf setters, create_hash_name,          *)
(* mangle_pdf and save                                                      *)

\* a Mangler whose state attribute is not set yet
NoState == [unset |-> TRUE]
NoFontMap == [unset |-> TRUE]

\* how an operation ended: the operation, the file name given, the result
Event(op, filename, result) == [op |-> op, filename |-> filename, result |-> result]
NoEvent == Event("none", "", "")

\* a byte string of a document: the bytes it was opened with and the
\* rewriting written over them (0: none)
Stream(src) == [src |-> src, rewrite |-> 0]

\* hashlib.md5(...).hexdigest(): the digest of a concatenation of byte
\* strings, taken as a tag on it
Md5(chunks) == <<"md5", chunks>>

\* the glyphs of a font with a CharSet, and the table of a font with a CMap
FontGlyphs == {<<"U+00E7">>, <<"A">>}
FontCMap == << <<(<<"4", "1">>), (<<"A">>)>>, <<(<<"0", "0", "4", "2">>), (<<"B">>)>> >>

\* the bfrange blocks of two fonts with a ToUnicode stream: a list with one
\* destination for two codes, as the last entry and before another entry
ShortListLast == <<[lo |-> 0, hi |-> 1, listed |-> TRUE, dest |-> <<5>>]>>
ShortListFirst ==
    <<[lo |-> 0, hi |-> 1, listed |-> TRUE, dest |-> <<5>>],
      [lo |-> 2, hi |-> 2, listed |-> FALSE, dest |-> <<6>>]>>

\* the documents on disk. a.pdf has an identifier, two pages, a form both
\* pages draw and a font with a CharSet; b.pdf has no identifier; c.pdf has
\* no identifier and a page without /Contents; d.pdf is not a PDF file;
\* e.pdf has two pages with the same /Contents stream and a font with a
\* ToUnicode stream; f.pdf has a font with a ToUnicode stream. objects are
\* the indirect objects in the order pdf.objects gives them.
Disk ==
    [ f \in {"a.pdf", "b.pdf", "c.pdf", "d.pdf", "e.pdf", "f.pdf"} |->
        CASE f = "a.pdf" ->
               [ valid |-> TRUE, filename |-> f, id |-> <<Stream("idA"), Stream("idA2")>>,
                 metadata |-> "source",
                 pages |-> << [objgen |-> "page3", dims |-> <<612, 792>>,
                               has_contents |-> TRUE, contents |-> Stream("a1"),
                               forms |-> <<"form9">>],
                              [objgen |-> "page4", dims |-> <<595, 842>>,
                               has_contents |-> TRUE, contents |-> Stream("a2"),
                               forms |-> <<"form9">>] >>,
                 forms |-> [x \in {"form9"} |-> Stream("a9")],
                 fonts |-> [x \in {"font5"} |-> [charset |-> FontGlyphs]],
                 objects |-> <<"catalog1", "pages2", "page3", "page4", "font5",
                               "stream6", "stream7", "form9">> ]
          [] f = "b.pdf" ->
               [ valid |-> TRUE, filename |-> f, id |-> <<>>,
                 metadata |-> "source",
                 pages |-> << [objgen |-> "page3", dims |-> <<612, 792>>,
                               has_contents |-> TRUE, contents |-> Stream("b1"),
                               forms |-> <<>>] >>,
                 forms |-> <<>>,
                 fonts |-> <<>>,
                 objects |-> <<"catalog1", "pages2", "page3", "stream4">> ]
          [] f = "c.pdf" ->
               [ valid |-> TRUE, filename |-> f, id |-> <<>>,
                 metadata |-> "source",
                 pages |-> << [objgen |-> "page3", dims |-> <<612, 792>>,
                               has_contents |-> FALSE, contents |-> Stream(""),
                               forms |-> <<>>] >>,
                 forms |-> <<>>,
                 fonts |-> <<>>,
                 objects |-> <<"catalog1", "pages2", "page3">> ]
          [] f = "e.pdf" ->
               [ valid |-> TRUE, filename |-> f, id |-> <<>>,
                 metadata |-> "source",
                 pages |-> << [objgen |-> "page3", dims |-> <<612, 792>>,
                               has_contents |-> TRUE, contents |-> Stream("e1"),
                               forms |-> <<>>],
                              [objgen |-> "page4", dims |-> <<612, 792>>,
                               has_contents |-> TRUE, contents |-> Stream("e1"),
                               forms |-> <<>>] >>,
                 forms |-> <<>>,
                 fonts |-> [x \in {"font5"} |-> [bfrange |-> ShortListLast]],
                 objects |-> <<"catalog1", "pages2", "page3", "page4", "font5",
                               "stream6">> ]
          [] f = "f.pdf" ->
               [ valid |-> TRUE, filename |-> f, id |-> <<>>,
                 metadata |-> "source",
                 pages |-> << [objgen |-> "page3", dims |-> <<612, 792>>,
                               has_contents |-> TRUE, contents |-> Stream("f1"),
                               forms |-> <<>>] >>,
                 forms |-> <<>>,
                 fonts |-> [x \in {"font5"} |-> [bfrange |-> ShortListFirst]],
                 objects |-> <<"catalog1", "pages2", "page3", "font5", "stream4">> ]
          [] OTHER -> [valid |-> FALSE] ]

\* the file names a caller gives: those on disk and one that is not
FileNames == DOMAIN Disk \cup {"nonexistant_file.pdf"}

\* (mutant) a missing file is created empty and opened
OpenOrCreate(filename) ==
    IF filename \notin DOMAIN Disk
    THEN Returned([ valid |-> TRUE, filename |-> filename, id |-> <<>>,
                    metadata |-> "source", pages |-> <<>>, forms |-> <<>>,
                    fonts |-> <<>>, objects |-> <<>> ])
    ELSE IF ~Disk[filename].valid THEN Raised("PdfError")
    ELSE Returned(Disk[filename])

\* pikepdf.Pdf.open(filename)
Open(filename) ==
    IF filename \notin DOMAIN Disk THEN Raised("FileNotFoundError")
    ELSE IF ~Disk[filename].valid THEN Raised("PdfError")
    ELSE Returned(Disk[filename])

\* (mutant) the identifier is ignored and the page contents always hashed
HashOfContents(doc) ==
    IF \E k \in 1..Len(doc.pages) : ~doc.pages[k].has_contents
    THEN Raised("AttributeError")
    ELSE Returned(<<Md5([k \in 1..Len(doc.pages) |-> doc.pages[k].contents]), ".pdf">>)

\* create_hash_name: the name it stores, or the exception of a page
\* without /Contents
create_hash_name(doc) ==
    IF doc.id # <<>> THEN Returned(<<Md5(<<doc.id[1]>>), ".pdf">>)
    ELSE IF \E k \in 1..Len(doc.pages) : ~doc.pages[k].has_contents
    THEN Raised("AttributeError")
    ELSE Returned(<<Md5([k \in 1..Len(doc.pages) |-> doc.pages[k].contents]), ".pdf">>)

\* the streams of a document: the contents of its pages and its forms
StreamsOf(doc) ==
    {doc.pages[k].contents.src : k \in 1..Len(doc.pages)}
        \cup {doc.forms[x].src : x \in DOMAIN doc.forms}

\* self.updater.Update(value): the call, with the loop it is made for
Update(loop, value) == [loop |-> loop, value |-> value]

\* (mutant) the answer of the updater is not asked for
NeverCancelled(upd, answer) == FALSE

\* self.updater and self.updater.WasCancelled()
WasCancelled(upd, answer) == upd /\ answer

\* (mutant) the list of visited streams is carried over to the new document
StateKeepingVisited(prev) ==
    IF "visited_streams" \in DOMAIN prev
    THEN [InitialState EXCEPT !.visited_streams = prev.visited_streams]
    ELSE InitialState

\* the state the pdf setter stores over the previous one
NewState(prev) == InitialState

\* self.filename = filename, pikepdf.Pdf.open raising: the setter of pdf is
\* not reached
SetFilenameOpenFails ==
    /\ pc \in {"new", "held", "stale", "cancelled"}
    /\ \E f \in FileNames :
          /\ ~Open(f).ok
          /\ event' = Event("open", f, Open(f).val)
    /\ UNCHANGED <<pc, pdf, hash_name, saved, counter, runs, manglerVars>>
    /\ UNCHANGED <<cmapVars, walkVars, numVars, textVars, lexVars, callerVars>>

\* self.filename = filename, create_hash_name raising: the document is
\* stored and nothing else; the caller goes on to another file
SetFilenameHashFails ==
    /\ pc \in {"new", "held", "stale", "cancelled"}
    /\ \E f \in FileNames :
          /\ Open(f).ok
          /\ ~create_hash_name(Open(f).val).ok
          /\ pdf' = Open(f).val
          /\ event' = Event("open", f, create_hash_name(Open(f).val).val)
    /\ pc' = "stale"
    /\ passes' = [x \in StreamsOf(pdf') |-> 0]
    /\ UNCHANGED <<hash_name, saved, counter, runs, manglerVars>>
    /\ UNCHANGED <<cmapVars, walkVars, numVars, textVars, lexVars, updater, cancel, updates>>

\* self.filename = filename: the document opened, named, and the state and
\* font map started afresh
SetFilename ==
    /\ pc \in {"new", "held", "stale", "cancelled"}
    /\ \E f \in FileNames :
          /\ Open(f).ok
          /\ create_hash_name(Open(f).val).ok
          /\ pdf' = Open(f).val
          /\ hash_name' = create_hash_name(Open(f).val).val
          /\ event' = Event("open", f, "assigned")
    /\ state' = NewState(state)
    /\ font_map' = InitialFontMap
    /\ pc' = "held"
    /\ passes' = [x \in StreamsOf(pdf') |-> 0]
    /\ UNCHANGED <<config, saved, counter, runs>>
    /\ UNCHANGED <<cmapVars, walkVars, numVars, textVars, lexVars, updater, cancel, updates>>

\* add_font_map(font): the category map stored under the font, or the
\* exception of the parse. Of the map of a parsed ToUnicode stream the
\* forward table is kept.
add_font_map(font) ==
    IF "charset" \in DOMAIN font THEN Returned(categorize_glyphs(font.charset))
    ELSE IF "bfrange" \in DOMAIN font
    THEN LET parsed == map_unicode(BlockTokens(font.bfrange))
         IN  IF parsed.ok THEN Returned([cmap |-> TRUE, ToUnicode |-> parsed.val])
             ELSE parsed
    ELSE Returned(LATIN_1)

\* mangle_objects from the k-th object on: every font object is mapped; an
\* AttributeError is taken for an object that is not a dictionary and
\* passed over, any other exception leaves the sweep. fm is the font map
\* so far.
RECURSIVE mangle_objects(_, _, _)
mangle_objects(doc, k, fm) ==
    IF k > Len(doc.objects) THEN [ok |-> TRUE, val |-> "", font_map |-> fm]
    ELSE IF doc.objects[k] \notin DOMAIN doc.fonts THEN mangle_objects(doc, k + 1, fm)
    ELSE LET name  == doc.objects[k]
             added == add_font_map(doc.fonts[name])
         IN  IF added.ok
             THEN mangle_objects(doc, k + 1,
                     [n \in DOMAIN fm \cup {name} |->
                         IF n = name THEN added.val ELSE fm[n]])
             ELSE IF added.val = "AttributeError"
             THEN mangle_objects(doc, k + 1, fm)
             ELSE [ok |-> FALSE, val |-> added.val, font_map |-> fm]

\* mangle_pdf up to its loop: strip_metadata, mangle_root and mangle_objects
BeginManglePdf ==
    /\ pc = "held" /\ runs < MaxRuns
    /\ mangle_objects(pdf, 1, font_map).ok
    /\ pdf' = [pdf EXCEPT !.metadata = IF config.metadata THEN "stripped" ELSE @]
    /\ font_map' = mangle_objects(pdf, 1, font_map).font_map
    /\ counter' = 0
    /\ updates' = IF updater THEN <<Update("pages", 0)>> ELSE <<>>
    /\ event' = Event("mangle_pdf", pdf.filename, "running")
    /\ pc' = "pages"
    /\ UNCHANGED <<hash_name, saved, runs, config, state>>
    /\ UNCHANGED <<cmapVars, walkVars, numVars, textVars, lexVars, updater, cancel, passes>>

\* mangle_pdf left by an exception of mangle_objects, before its loop
BeginManglePdfRaises ==
    /\ pc = "held" /\ runs < MaxRuns
    /\ ~mangle_objects(pdf, 1, font_map).ok
    /\ pdf' = [pdf EXCEPT !.metadata = IF config.metadata THEN "stripped" ELSE @]
    /\ font_map' = mangle_objects(pdf, 1, font_map).font_map
    /\ event' = Event("mangle_pdf", pdf.filename, mangle_objects(pdf, 1, font_map).val)
    /\ UNCHANGED <<pc, hash_name, saved, counter, runs, config, state>>
    /\ UNCHANGED <<cmapVars, walkVars, numVars, textVars, lexVars, callerVars>>

\* the streams mangle_content and mangle_references take for a page, in
\* order: the page, then each form it draws, less those visited already
RECURSIVE Unvisited(_, _)
Unvisited(objgens, visited) ==
    IF objgens = <<>> THEN <<>>
    ELSE IF \E k \in 1..Len(visited) : visited[k] = objgens[1]
    THEN Unvisited(Tail(objgens), visited)
    ELSE <<objgens[1]>> \o Unvisited(Tail(objgens), Append(visited, objgens[1]))

\* one turn of the loop of mangle_pdf: the page index and dimensions are
\* stored, then the streams of the page not yet visited are rewritten by
\* mangle_stream, which leaves its current point and font behind
ManglePage ==
    /\ pc = "pages" /\ counter < Len(pdf.pages)
    /\ ~WasCancelled(updater, cancel)
    /\ LET page == pdf.pages[counter + 1]
           todo == IF config.content
                   THEN Unvisited(<<page.objgen>> \o page.forms, state.visited_streams)
                   ELSE <<>>
           objs == {todo[k] : k \in 1..Len(todo)}
       IN  /\ \E rw \in [objs -> 0..MaxRewrites] :
                 pdf' = [pdf EXCEPT
                           !.pages = [k \in DOMAIN pdf.pages |->
                               IF /\ page.objgen \in objs
                                  /\ pdf.pages[k].contents.src = page.contents.src
                               THEN [pdf.pages[k] EXCEPT
                                       !.contents.rewrite = rw[page.objgen]]
                               ELSE pdf.pages[k]],
                           !.forms = [x \in DOMAIN pdf.forms |->
                                         IF x \in objs
                                         THEN [pdf.forms[x] EXCEPT !.rewrite = rw[x]]
                                         ELSE pdf.forms[x]]]
           /\ \E pt \in {state.point, <<10 * Scale, 20 * Scale>>},
                 ft \in {state.font} \cup DOMAIN pdf.fonts :
                 /\ objs = {} => (pt = state.point /\ ft = state.font)
                 /\ state' = [state EXCEPT
                                !.page = counter,
                                !.page_dims = page.dims,
                                !.point = pt,
                                !.font = ft,
                                !.visited_streams = @ \o todo]
           /\ passes' = [x \in DOMAIN passes |->
                            IF \/ (page.objgen \in objs /\ x = page.contents.src)
                               \/ \E f \in objs \cap DOMAIN pdf.forms : x = pdf.forms[f].src
                            THEN passes[x] + 1 ELSE passes[x]]
    /\ updates' = IF updater THEN Append(updates, Update("pages", counter)) ELSE updates
    /\ counter' = counter + 1
    /\ UNCHANGED <<pc, hash_name, event, saved, runs, config, font_map>>
    /\ UNCHANGED <<cmapVars, walkVars, numVars, textVars, lexVars, updater, cancel>>

\* one turn of the loop in which mangle_stream raises on the stream of the
\* page: mangle_pdf is left by the exception
ManglePageRaises ==
    /\ pc = "pages" /\ counter < Len(pdf.pages)
    /\ ~WasCancelled(updater, cancel)
    /\ config.content
    /\ Unvisited(<<pdf.pages[counter + 1].objgen>>, state.visited_streams) # <<>>
    /\ state' = [state EXCEPT !.page = counter,
                              !.page_dims = pdf.pages[counter + 1].dims]
    /\ \E e \in {"IndexError", "TypeError", "KeyError"} :
          event' = Event("mangle_pdf", pdf.filename, e)
    /\ pc' = "held"
    /\ UNCHANGED <<pdf, hash_name, saved, counter, runs, config, font_map>>
    /\ UNCHANGED <<cmapVars, walkVars, numVars, textVars, lexVars, callerVars>>

\* one turn of the loop in which the updater answers that the user has
\* cancelled: mangle_pdf raises InterruptedError and the caller, which
\* calls save after mangle_pdf, leaves the document
CancelRun ==
    /\ pc = "pages" /\ counter < Len(pdf.pages)
    /\ WasCancelled(updater, cancel)
    /\ event' = Event("mangle_pdf", pdf.filename, "InterruptedError")
    /\ pc' = "cancelled"
    /\ UNCHANGED <<pdf, hash_name, saved, counter, runs, manglerVars>>
    /\ UNCHANGED <<cmapVars, walkVars, numVars, textVars, lexVars, callerVars>>

\* the user cancels while mangle_pdf runs
CancelPressed ==
    /\ pc = "pages" /\ updater /\ ~cancel
    /\ cancel' = TRUE
    /\ UNCHANGED <<pc, pdf, hash_name, event, saved, counter, runs, manglerVars>>
    /\ UNCHANGED <<cmapVars, walkVars, numVars, textVars, lexVars, updater, updates, passes>>

\* the loop of mangle_pdf is over and mangle_pdf returns
EndManglePdf ==
    /\ pc = "pages" /\ counter = Len(pdf.pages)
    /\ event' = Event("mangle_pdf", pdf.filename, "returned")
    /\ runs' = runs + 1
    /\ updates' = IF updater THEN Append(updates, Update("pages", counter)) ELSE updates
    /\ pc' = "held"
    /\ UNCHANGED <<pdf, hash_name, saved, counter, manglerVars>>
    /\ UNCHANGED <<cmapVars, walkVars, numVars, textVars, lexVars, updater, cancel, passes>>

\* save(folder): the document written under folder / hash_name. The
\* callers (main, the batch loop, the tests) save a document once
\* mangle_pdf has returned.
Save ==
    /\ pc = "held"
    /\ event.op \in {"mangle_pdf", "save"} /\ event.result = "returned"
    /\ saved' = saved \cup {[name |-> hash_name, filename |-> pdf.filename]}
    /\ event' = Event("save", pdf.filename, "returned")
    /\ UNCHANGED <<pc, pdf, hash_name, counter, runs, manglerVars>>
    /\ UNCHANGED <<cmapVars, walkVars, numVars, textVars, lexVars, callerVars>>

----------------------------------------------------------------------------
(* What each group of variables holds while another operation is studied *)

NumIdle == num_text = <<>> /\ max_tweak = 0 /\ new_num = <<>> /\ sampled = 0
TextIdle == text = <<>> /\ char_cats = LATIN_1 /\ random_text = <<>>
LexIdle ==
    /\ resources = NoFontResources
    /\ stream = <<>> /\ b_pos = 1 /\ new_b = <<>>
    /\ command = <<>> /\ prev_delim = 0 /\ c_pos = 0
    /\ is_comment = FALSE /\ is_string_literal = FALSE
    /\ last_tok = NoToken
ManglerIdle == config = ContentOff /\ state = InitialState /\ font_map = InitialFontMap
DocIdle ==
    /\ pdf = NoPdf /\ hash_name = <<>> /\ event = NoEvent /\ saved = {}
    /\ counter = 0 /\ runs = 0
    /\ updater = FALSE /\ cancel = FALSE /\ updates = <<>> /\ passes = <<>>
CMapIdle == cmap_stream = <<>> /\ forward_map = Returned(<<>>)
WalkIdle == graph = <<>> /\ stack = <<>>

----------------------------------------------------------------------------
(* Inputs of tweak_num: every text the numeral pattern matches whole *)

NumBytes == {"-", ".", "0", "1", "5", "9"}

RECURSIVE SeqsUpTo(_, _)
SeqsUpTo(S, n) ==
    IF n = 0 THEN {<<>>}
    ELSE LET P == SeqsUpTo(S, n - 1)
         IN  P \cup {Append(p, x) : p \in {q \in P : Len(q) = n - 1}, x \in S}

Numerals ==
    {s \in SeqsUpTo(NumBytes, MaxNumLen) :
        s # <<>> /\ MatchNum(s, 1) = Len(s) + 1 /\ FracLen(s) <= DecPlaces}

\* max_tweak = max(min_tweak, magnitude * percent_tweak): any number >= 0
MaxTweaks == {0, Scale \div 2, Scale, 18 * Scale}

NumInit ==
    /\ num_text \in Numerals
    /\ max_tweak \in MaxTweaks
    /\ new_num = <<>>
    /\ sampled = 0

CallTweakNum ==
    /\ pc = "call"
    /\ \E v \in TweakSamples(ParseFloat(num_text), max_tweak) :
          /\ sampled' = v
          /\ new_num' = TweakFormat(v, ParseFloat(num_text), Len(num_text))
    /\ pc' = "returned"
    /\ UNCHANGED <<num_text, max_tweak, textVars, manglerVars, lexVars, docVars, cmapVars, walkVars>>

NumNext == CallTweakNum

SpecNumInit ==
    pc = "call" /\ NumInit /\ TextIdle /\ ManglerIdle /\ LexIdle /\ DocIdle /\ CMapIdle /\ WalkIdle

SpecNum == SpecNumInit /\ [][NumNext]_vars

\* C2: numeral width invariance. For every text the numeral pattern matches
\* and every max_tweak >= 0, tweak_num returns exactly as many bytes as the
\* text it replaces.
C2_NumeralWidth ==
    pc = "returned" => Len(new_num) = Len(num_text)

\* a negative numeral with a fraction was tweaked to a different text
C2_Witness ==
    /\ pc = "returned"
    /\ num_text = <<"-", "1", ".", "5">>
    /\ max_tweak = 18 * Scale
    /\ new_num # num_text
    /\ new_num[1] = "-"

\* C21: bounded perturbation. The value tweak_num samples for a numeral v
\* with maximum offset t >= 0 lies in [v - t, v + t], has the sign of v and
\* as many integer digits as v.
C21_BoundedPerturbation ==
    pc = "returned" =>
        LET v == ParseFloat(num_text)
        IN  /\ v - max_tweak <= sampled /\ sampled <= v + max_tweak
            /\ (v < 0) = (sampled < 0)
            /\ DigitsOf(sampled) = DigitsOf(v)

\* the case of C21 that holds: a numeral away from the ends of its digit
\* range is moved within the offset
C21_InRangeCase ==
    /\ pc = "returned"
    /\ num_text = <<"5">> /\ max_tweak = Scale
    /\ sampled = 6 * Scale

----------------------------------------------------------------------------
(* The text mangler on its own: replace_text on a character string and      *)
(* replace_bytes on an operand span, under a category map of the resolver.  *)

TextChars == {"a", "U+00E7", "A", "1", "(", " "}

OperandBytes == {"(", ")", "a", "xC3", "xA7"}

\* glyph lists a font can resolve to
GlyphSets ==
    { {<<"U+00E7">>, <<"A">>},
      {<<"a">>, <<"b">>, <<"U+00E7">>, <<"1">>, <<"(">>, <<"a", "b">>},
      {<<"1">>, <<"0">>} }

CategoryMaps == {LATIN_1} \cup {categorize_glyphs(G) : G \in GlyphSets}

\* tu.replace_text(str(...)): a string of the document
CallReplaceText ==
    /\ pc = "call_text"
    /\ \E r \in replace_text(text, char_cats) : random_text' = Returned(r)
    /\ pc' = "returned_text"
    /\ UNCHANGED <<text, char_cats, numVars, manglerVars, lexVars, docVars, cmapVars, walkVars>>

\* tu.replace_bytes(operands, font_map[font])
CallReplaceBytes ==
    /\ pc = "call_bytes"
    /\ \E r \in replace_bytes(text, char_cats) : random_text' = r
    /\ pc' = "returned_bytes"
    /\ UNCHANGED <<text, char_cats, numVars, manglerVars, lexVars, docVars, cmapVars, walkVars>>

\* the code -> text tables of three fonts with a ToUnicode stream: codes
\* of two and of four hex digits, codes of two digits, codes of four
HexCMaps ==
    { << <<(<<"6", "1">>), (<<"a">>)>>, <<(<<"0", "0", "6", "2">>), (<<"b">>)>> >>,
      << <<(<<"6", "1">>), (<<"a">>)>>, <<(<<"6", "2">>), (<<"b">>)>> >>,
      << <<(<<"0", "0", "6", "1">>), (<<"a">>)>>,
         <<(<<"0", "0", "6", "2">>), (<<"b">>)>> >> }

\* the hex strings given to replace_hex_bytes: up to MaxHexLen digits
\* between angle brackets
HexOperands ==
    { <<"<">> \o ds \o <<">">> : ds \in SeqsUpTo({"0", "1", "2", "6"}, MaxHexLen) }

\* tu.replace_hex_bytes(operands, font_map[font])
CallReplaceHexBytes ==
    /\ pc = "call_hex"
    /\ \E r \in replace_hex_bytes(text, char_cats) : random_text' = r
    /\ pc' = "returned_hex"
    /\ UNCHANGED <<text, char_cats, numVars, manglerVars, lexVars, docVars, cmapVars, walkVars>>

\* the glyph names a CharSet is written with: a name of the glyph list, an
\* empty name, a ligature name, u and uni names (of a letter, without
\* digits, with a character that is no hex digit, beyond the last code
\* point, beyond 2^31), an unknown name
GlyphNames ==
    { <<"A">>, <<>>, <<"f", "_", "f">>, <<"u", "4", "1">>, <<"u", "n", "i", "6", "1">>,
      <<"u">>, <<"u", "n", "i", "Z">>, <<"u", "n", "i", "1", "1", "0", "0", "0", "0">>,
      <<"u", "8", "0", "0", "0", "0", "0", "0", "0">>, <<"Z">> }

\* the CharSet strings: up to MaxNames names, each after a slash
RECURSIVE Charsets(_)
Charsets(n) ==
    IF n = 0 THEN {<<>>}
    ELSE LET P == Charsets(n - 1)
         IN  P \cup {p \o <<"/">> \o name : p \in P, name \in GlyphNames}

\* tu.get_font_glyphs(charset), called by map_charset
CallGetFontGlyphs ==
    /\ pc = "call_glyphs"
    /\ random_text' = get_font_glyphs(text)
    /\ pc' = "returned_glyphs"
    /\ UNCHANGED <<text, char_cats, numVars, manglerVars, lexVars, docVars, cmapVars, walkVars>>

TextNext ==
    CallReplaceText \/ CallReplaceBytes \/ CallReplaceHexBytes \/ CallGetFontGlyphs

SpecTextInit ==
    /\ NumIdle /\ ManglerIdle /\ LexIdle /\ DocIdle /\ CMapIdle /\ WalkIdle
    /\ random_text = <<>>
    /\ \/ /\ pc = "call_text" /\ text \in SeqsUpTo(TextChars, MaxTextLen)
          /\ char_cats \in CategoryMaps
       \/ /\ pc = "call_bytes" /\ text \in SeqsUpTo(OperandBytes, MaxOperandLen)
          /\ char_cats \in CategoryMaps
       \/ /\ pc = "call_hex" /\ text \in HexOperands
          /\ char_cats \in {CMapCats(t) : t \in HexCMaps}
       \/ /\ pc = "call_glyphs" /\ text \in Charsets(MaxNames)
          /\ char_cats = LATIN_1

SpecText == SpecTextInit /\ [][TextNext]_vars

\* C3: category invariance. Under any category map of the resolver, every
\* character replace_text returns stands where a character of the same
\* Unicode general category stood.
C3_CategoryInvariance ==
    pc = "returned_text" =>
        /\ Len(random_text.val) = Len(text)
        /\ \A i \in 1..Len(text) :
              Category(random_text.val[i]) = Category(text[i])

\* a letter was replaced by another letter under a font's own map
C3_Witness ==
    /\ pc = "returned_text"
    /\ char_cats # LATIN_1
    /\ \E i \in 1..Len(text) :
          /\ random_text.val[i] # text[i]
          /\ Category(text[i]) = Ll

\* the bytes of an operand span that lie outside the payloads of its
\* parenthesised strings, followed by the pass-through characters of the
\* payloads
RECURSIVE PassThroughPart(_, _)
PassThroughPart(s, i) ==
    LET m == NextGroup(s, i, "(", ")")
        payload == SubSeq(s, m.start + 1, m.end)
    IN  IF m.start < 0 THEN SubSeq(s, i, Len(s))
        ELSE SubSeq(s, i, m.start)
             \o (IF Decodable(payload)
                 THEN SelectSeq(Decode(payload), LAMBDA c : Category(c)[1] \in PASS_CATS)
                 ELSE payload)
             \o PassThroughPart(s, m.end + 1)

\* C4: pass-through invariance. replace_text returns every character of a
\* pass-through category (P, M, Z, C, S) unchanged, and replace_bytes returns
\* every byte outside the parenthesised payloads unchanged.
C4_PassThrough ==
    /\ pc = "returned_text" =>
          /\ Len(random_text.val) = Len(text)
          /\ \A i \in 1..Len(text) :
                Category(text[i])[1] \in PASS_CATS => random_text.val[i] = text[i]
    /\ (pc = "returned_bytes" /\ random_text.ok) =>
          PassThroughPart(random_text.val, 1) = PassThroughPart(text, 1)

\* the case of C4 that holds: replace_bytes returned a span of the length
\* it was given, with a letter replaced
C4_SameLengthCase ==
    /\ pc = "returned_bytes" /\ random_text.ok
    /\ Len(random_text.val) = Len(text)
    /\ random_text.val # text

\* C25: the substitution pool. Every character replace_text returns is
\* the original when its category is pass-through, a member of the default
\* subset of the font's map when the original is in that subset, else a
\* member of the font's pool for the category, and the original when the
\* font's map has no pool for the category.
C25_SubstitutionPool ==
    pc = "returned_text" =>
        /\ random_text.ok
        /\ Len(random_text.val) = Len(text)
        /\ \A k \in 1..Len(text) :
              LET char == text[k]
                  cat == Category(char)
              IN  random_text.val[k] \in
                     (IF cat[1] \in PASS_CATS THEN {char}
                      ELSE IF cat \notin DOMAIN char_cats.cats THEN {char}
                      ELSE IF cat \in DOMAIN char_cats.default
                              /\ char \in char_cats.default[cat]
                      THEN char_cats.default[cat]
                      ELSE char_cats.cats[cat])

\* the case of C25 that holds: a letter outside the default subset is
\* replaced from the full pool, one inside it from the default subset
C25_BothPoolsCase ==
    /\ pc = "returned_text"
    /\ char_cats = LATIN_1
    /\ text = <<"U+00E7", "a">>
    /\ random_text = Returned(<<"U+00E7", "b">>)

\* the name resolves to a glyph: it is in the glyph list, or it is u or
\* uni followed by the hex digits of a code point
Resolvable(name) ==
    \/ name \in DOMAIN GLYPHLIST
    \/ /\ name # <<>> /\ name[1] = "u"
       /\ \A k \in 1..Len(name) : name[k] # "_"
       /\ LET ds == IF Len(name) >= 3 /\ SubSeq(name, 1, 3) = <<"u", "n", "i">>
                    THEN SubSeq(name, 4, Len(name)) ELSE Tail(name)
          IN  ds # <<>> /\ HexInt(ds, 0) >= 0 /\ HexInt(ds, 0) < 1114112

\* C24: glyph-name resolution is never fatal. For every CharSet string,
\* empty names and u/uni names with non-hex or out-of-range digits
\* included, get_font_glyphs returns a list of glyphs, one for each name
\* that resolves and none for a name that does not.
C24_ResolutionNotFatal ==
    pc = "returned_glyphs" =>
        /\ random_text.ok
        /\ Len(random_text.val) =
              Cardinality({k \in 1..Len(SplitNames(text, <<>>, TRUE)) :
                              Resolvable(SplitNames(text, <<>>, TRUE)[k])})

\* the case of C24 that holds: a name with a character that is no hex
\* digit is dropped and the name before it kept
C24_DroppedNameCase ==
    /\ pc = "returned_glyphs"
    /\ text = <<"/", "u", "4", "1", "/", "u", "n", "i", "Z">>
    /\ random_text = Returned(<<"A">>)

\* the positions in a hex string <...> of the first digit of each pair
PairStarts(t) == {p \in 2..(Len(t) - 2) : p % 2 = 0}

\* C15: hex-encoded text. Of a hex operand every code that has a forward
\* mapping is replaced by the code of its substituted text (a text of the
\* same category), each replacement takes the number of bytes of the code
\* it replaces, and a code without a mapping keeps its bytes.
C15_HexReplacement ==
    (pc = "returned_hex" /\ PairStarts(text) # {}) =>
        /\ random_text.ok
        /\ Len(random_text.val) = Len(text)
        /\ \A p \in PairStarts(text) :
              LET code == SubSeq(text, p, p + 1)
                  new  == SubSeq(random_text.val, p, p + 1)
              IN  IF code \in DOMAIN char_cats.ToUnicode
                  THEN /\ new \in DOMAIN char_cats.ToUnicode
                       /\ Category(char_cats.ToUnicode[new][1])
                              = Category(char_cats.ToUnicode[code][1])
                  ELSE new = code

\* the case of C15 that holds: one code under a table of two-digit codes
C15_SameWidthCase ==
    /\ pc = "returned_hex" /\ random_text.ok
    /\ text = <<"<", "6", "1", ">">>
    /\ random_text.val = <<"<", "6", "2", ">">>

----------------------------------------------------------------------------
(* mangle_stream on one content stream of a page *)

\* the commands streams are built from: text shown from a literal (ASCII
\* and two-byte), text shown without a separating space, text shown from
\* hex, a move, lines (short and along the page), a curve that ends across
\* the page, a curve with one control point, a move with one numeral,
\* rectangles (page-sized and small), font selections (with and without
\* operands), a comment, an inline image
Items ==
    { <<"(", "a", ")", " ", "T", "j", " ">>,
      <<"(", "a", ")", "T", "j">>,
      <<"(", "xC3", "xA7", ")", "T", "j", " ">>,
      <<"<", "4", "1", ">", "T", "j", " ">>,
      <<"1", " ", "2", " ", "m", " ">>,
      <<".", "0", "5", " ", "5", " ", "l", " ">>,
      <<"9", "0", "0", " ", "9", " ", "l", "\n">>,
      <<"1", " ", "1", " ", "2", " ", "2", " ", "9", "0", "0", " ", "9", " ", "c", " ">>,
      <<"2", " ", "2", " ", "5", " ", "5", " ", "v", " ">>,
      <<"5", " ", "m", " ">>,
      <<"0", " ", "0", " ", "4", "0", "0", " ", "5", "0", "0", " ", "r", "e", " ">>,
      <<"1", " ", "1", " ", "2", " ", "2", " ", "r", "e", " ">>,
      <<"/", "F", "1", " ", "9", " ", "T", "f", " ">>,
      <<"T", "f", " ">>,
      <<"%", "(", "\n">>,
      <<"B", "I", " ", "I", "D", " ", "(", "a", ")", " ", "T", "j", " ", "E", "I", " ">> }

RECURSIVE ItemStreams(_)
ItemStreams(n) ==
    IF n = 0 THEN {<<>>}
    ELSE LET P == ItemStreams(n - 1)
         IN  P \cup {p \o i : p \in P, i \in Items}

\* the bytes the loop of mangle_stream branches on, and an operator
LexBytes == {"(", ")", "%", "\n", " ", "q"}

\* the font resources of a page that names one font, /F1
PageFonts == [has_fonts |-> TRUE, Font |-> [n \in {<<"/", "F", "1">>} |-> "font5"]]

\* the configuration, font map and font resources a stream is mangled
\* under; in the last the font the page names has no entry in the font map
\* (mangle_objects maps the objects with /Type /Font and passes over one
\* whose mapping raises AttributeError)
Scenarios ==
    { [ config |-> DocConfig(FALSE, FALSE, FALSE, Scale),
        font_map |-> InitialFontMap @@ ("font5" :> categorize_glyphs(FontGlyphs)),
        resources |-> PageFonts ],
      [ config |-> DocConfig(TRUE, TRUE, FALSE, Scale),
        font_map |-> InitialFontMap @@ ("font5" :> categorize_glyphs(FontGlyphs)),
        resources |-> PageFonts ],
      [ config |-> DocConfig(TRUE, TRUE, TRUE, 0),
        font_map |-> InitialFontMap @@ ("font5" :> CMapCats(FontCMap)),
        resources |-> PageFonts ],
      [ config |-> DocConfig(TRUE, TRUE, FALSE, Scale),
        font_map |-> InitialFontMap,
        resources |-> NoFontResources ],
      [ config |-> DocConfig(TRUE, FALSE, FALSE, Scale),
        font_map |-> InitialFontMap,
        resources |-> PageFonts ] }

StreamInit ==
    /\ \E sc \in Scenarios :
          /\ config = sc.config
          /\ font_map = sc.font_map
          /\ resources = sc.resources
          /\ stream \in ItemStreams(MaxItems)
                        \cup (IF ~sc.config.text /\ ~sc.config.paths
                              THEN SeqsUpTo(LexBytes, MaxLexLen) ELSE {})
    /\ state = InitialState
    /\ b_pos = 1 /\ new_b = <<>>
    /\ command = <<>> /\ prev_delim = 0 /\ c_pos = 0
    /\ is_comment = FALSE /\ is_string_literal = FALSE
    /\ last_tok = NoToken

StreamNext == ScanByte \/ EmitToken \/ RaiseInToken \/ ReturnStream

SpecStreamInit ==
    pc = "loop" /\ StreamInit /\ NumIdle /\ TextIdle /\ DocIdle /\ CMapIdle /\ WalkIdle

SpecStream == SpecStreamInit /\ [][StreamNext]_vars

\* C1: length invariance. For any content stream and any font category map
\* in force, mangle_stream returns exactly as many bytes as the stream holds.
C1_LengthInvariance ==
    pc = "done" => Len(new_b) = Len(stream)

\* the case of C1 that holds: a stream whose text and path operands were
\* rewritten came back with its length
C1_SameLengthCase ==
    /\ pc = "done"
    /\ config.text /\ config.paths
    /\ new_b # stream
    /\ Len(new_b) = Len(stream)

\* C7: token-count preservation. For any content stream, the output of
\* mangle_stream splits at white space into as many tokens as the input.
C7_TokenCount ==
    pc = "done" => Len(Split(new_b)) = Len(Split(stream))

\* the case of C7 that holds: path numerals were rewritten and the tokens
\* kept their number
C7_SameCountCase ==
    /\ pc = "done"
    /\ last_tok.op \in PATH_CONSTRUCTION_OPS
    /\ last_tok.out # last_tok.operands
    /\ Len(Split(new_b)) = Len(Split(stream))

\* C6: lexer reconstruction. With text mangling and path mangling both off,
\* mangle_stream returns, and returns the input byte for byte: at every
\* turn of the loop the bytes written and the command held are the bytes
\* read so far.
C6_Reconstruction ==
    (~config.text /\ ~config.paths) =>
        /\ pc # "raised"
        /\ pc = "loop" => new_b \o command = SubSeq(stream, 1, b_pos - 1)
        /\ pc = "done" => new_b = stream

\* the case of C6 that holds: a stream with a comment and dispatched
\* operators came back byte for byte
C6_ReturnedCase ==
    /\ ~config.text /\ ~config.paths
    /\ pc = "done" /\ new_b = stream
    /\ last_tok.op # <<>>
    /\ "%" \in {stream[k] : k \in 1..Len(stream)}

\* C5: background-geometry preservation. With path mangling on, a rectangle
\* whose absolute width exceeds page_width * percent_page_keep and whose
\* absolute height exceeds page_height * percent_page_keep is written with
\* its operands byte for byte, and so is a line or curve whose displacement
\* from the current point satisfies the background test.
C5_BackgroundPreserved ==
    (pc # "raised" /\ config.paths /\ last_tok.op \in PATH_CONSTRUCTION_OPS) =>
        LET ops   == FindNumerals(last_tok.operands, 1)
            ids   == NewPointIds(last_tok.op)
            min_x == state.page_dims[1] * config.percent_page_keep * Scale
            min_y == state.page_dims[2] * config.percent_page_keep * Scale
        IN  /\ ( /\ last_tok.op = <<"r", "e">>
                 /\ Len(ops) >= 4
                 /\ AbsI(ops[3].val) * 100 > min_x
                 /\ AbsI(ops[4].val) * 100 > min_y )
               => last_tok.out = last_tok.operands
            /\ ( /\ ids # <<>>
                 /\ Len(ops) >= ids[2] + 1
                 /\ last_tok.point # <<>>
                 /\ is_background_line(AbsI(ops[ids[1] + 1].val - last_tok.point[1]),
                                       AbsI(ops[ids[2] + 1].val - last_tok.point[2]),
                                       config, state) )
               => last_tok.out = last_tok.operands

\* a page-sized rectangle went through the path mangler, after a small one
\* was rewritten
C5_Witness ==
    /\ pc = "done" /\ config.paths
    /\ last_tok.op = <<"r", "e">>
    /\ last_tok.operands = <<" ", "0", " ", "0", " ", "4", "0", "0", " ", "5", "0", "0", " ">>
    /\ last_tok.out = last_tok.operands
    /\ SubSeq(stream, 1, 7) = <<"1", " ", "1", " ", "2", " ", "2">>
    /\ SubSeq(new_b, 1, 7) # SubSeq(stream, 1, 7)

NumeralsNeeded(operator) ==
    CASE operator \in {<<"m">>, <<"l">>} -> 2
      [] operator \in {<<"v">>, <<"y">>, <<"r", "e">>} -> 4
      [] operator = <<"c">> -> 6
      [] OTHER -> 0

\* C23: a malformed operand shape is not fatal. A path-construction
\* operator whose operand span holds fewer numerals than it needs does not
\* end the stream by an exception: the span is emitted unchanged and the
\* scan goes on.
C23_MalformedNotFatal ==
    ( /\ last_tok.op \in PATH_CONSTRUCTION_OPS
      /\ Len(FindNumerals(last_tok.operands, 1)) < NumeralsNeeded(last_tok.op) )
    => /\ pc # "raised" /\ last_tok.raised = ""
       /\ last_tok.out = last_tok.operands

\* the case of C23 that holds: with mangle.paths off the span of a move
\* with one numeral is emitted as it is
C23_PathsOffCase ==
    /\ pc = "done" /\ ~config.paths
    /\ last_tok.op = <<"m">> /\ last_tok.operands = <<"5", " ">>
    /\ last_tok.raised = "" /\ last_tok.out = last_tok.operands
    /\ new_b = stream

\* C29: the current point is defined when it is needed. Whenever a
\* line-to or curve-to operator is processed by the path mangler a current
\* point has been recorded, and the operator is processed without the
\* failure of a missing point, also when it is the first path operator of
\* the document or comes after rectangles only.
C29_PointDefined ==
    (config.paths /\ last_tok.op \in {<<"l">>, <<"c">>, <<"v">>, <<"y">>}) =>
        last_tok.point # <<>> /\ last_tok.raised # "TypeError"

\* the case of C29 that holds: a line after a move
C29_AfterMoveCase ==
    /\ pc = "done" /\ config.paths
    /\ last_tok.op = <<"l">> /\ last_tok.raised = ""
    /\ last_tok.point = <<1 * Scale, 2 * Scale>>
    /\ state.point = <<5 * Scale, 5 * Scale>>

\* the offsets (1-based) of the operand span that the two numerals of the
\* end point of a line or curve take
EndPointBytes(operator, operands) ==
    LET nums == FindNumerals(operands, 1)
        at   == CASE operator = <<"l">> -> {1, 2}
                  [] operator = <<"c">> -> {5, 6}
                  [] OTHER -> {3, 4}
    IN  UNION {(nums[k].start + 1)..nums[k].end : k \in at \cap DOMAIN nums}

\* C30: only end points move. Of the operand span of l, c, v and y only
\* the bytes of the two numerals of the end point can differ in the output;
\* the numerals of the control points and every other byte stay as they
\* are. The span of a move is returned as it is when path.tweak_start is
\* off.
C30_OnlyEndpointsMove ==
    (pc \in {"loop", "done"} /\ last_tok.raised = "") =>
        /\ last_tok.op \in {<<"l">>, <<"c">>, <<"v">>, <<"y">>} =>
              /\ Len(last_tok.out) = Len(last_tok.operands)
              /\ \A i \in 1..Len(last_tok.operands) :
                    i \notin EndPointBytes(last_tok.op, last_tok.operands)
                    => last_tok.out[i] = last_tok.operands[i]
        /\ (last_tok.op = <<"m">> /\ ~config.tweak_start) =>
              last_tok.out = last_tok.operands

\* the end point of a curve with one control point was rewritten, and
\* nothing else
C30_Witness ==
    /\ pc = "loop" /\ config.paths
    /\ last_tok.op = <<"v">> /\ last_tok.raised = ""
    /\ last_tok.out # last_tok.operands
    /\ SubSeq(last_tok.out, 1, 5) = <<" ", "2", " ", "2", " ">>

\* the line terminators that end a comment
EOL == {"\n", "\r", "\f"}

\* the k-th byte of s starts a comment or a string outside any other: no
\* byte before it is a percent sign or a parenthesis
StartsFirst(s, k, byte) ==
    /\ s[k] = byte
    /\ \A j \in 1..(k - 1) : s[j] \notin {"%", "(", ")"}

\* C17: comment handling. Once the line terminator that ends a comment has
\* been read, the scanner is in neither the comment nor the string state,
\* whatever bytes the comment held, and an operator that follows the
\* comment and is followed by white space is found. Stated for the first
\* comment of a stream, which starts outside any string.
C17_CommentEnds ==
    pc = "loop" =>
        \A k \in 1..Len(stream), e \in 1..Len(stream) :
            ( /\ StartsFirst(stream, k, "%")
              /\ e > k /\ stream[e] \in EOL
              /\ \A j \in (k + 1)..(e - 1) : stream[j] \notin EOL )
            => /\ b_pos = e + 1 => (~is_comment /\ ~is_string_literal)
               /\ ( /\ b_pos > e + 1 /\ b_pos <= Len(stream)
                    /\ SubSeq(stream, e + 1, b_pos - 1) \in ALL_OPS
                    /\ stream[b_pos] \in WHITESPACE )
                  => OperatorFound

\* the case of C17 that holds: the operator after a comment without
\* parentheses is found
C17_PlainCommentCase ==
    /\ pc = "loop"
    /\ stream = <<"%", "\n", "q", " ">>
    /\ b_pos = 4
    /\ OperatorFound

\* how many parentheses opened in s[from..to] are not closed
RECURSIVE Depth(_, _, _)
Depth(s, from, to) ==
    IF to < from THEN 0
    ELSE LET d == Depth(s, from, to - 1)
         IN  IF s[to] = "(" THEN d + 1
             ELSE IF s[to] = ")" /\ d > 0 THEN d - 1
             ELSE d

\* C18: string-literal opacity. Between the parenthesis that opens a
\* string and the one that matches it, balanced nested parentheses and
\* percent signs included, the scanner stays in the string state, never
\* enters the comment state and finds no operator. Stated for the first
\* string of a stream, which starts outside any comment.
C18_StringOpaque ==
    pc = "loop" =>
        \A k \in 1..Len(stream) :
            ( /\ StartsFirst(stream, k, "(")
              /\ b_pos > k
              /\ \A j \in k..(b_pos - 1) : Depth(stream, k, j) > 0 )
            => /\ is_string_literal /\ ~is_comment
               /\ b_pos <= Len(stream) => ~OperatorFound

\* the case of C18 that holds: an operator inside a string without nested
\* parentheses or percent signs is not found
C18_PlainStringCase ==
    /\ pc = "loop"
    /\ stream = <<"(", "q", " ", ")">>
    /\ b_pos = 3
    /\ is_string_literal /\ ~is_comment /\ ~OperatorFound

\* C27: dispatch completeness. A text-show operator (Tj, TJ, ', ") that
\* the scanner has read outside comments and strings is dispatched to the
\* text mangler with its operands whichever byte follows it, white space,
\* a parenthesis, a percent sign or another delimiter, and also when the
\* stream ends after it.
C27_DispatchComplete ==
    ( /\ pc = "loop"
      /\ ~is_comment /\ ~is_string_literal
      /\ SliceFrom(command, prev_delim) \in TEXT_SHOW_OPS )
    => /\ b_pos <= Len(stream)
       /\ next_byte \in WHITESPACE \cup DELIMITERS => OperatorFound

\* the case of C27 that holds: the operator followed by a space has been
\* dispatched with its operands
C27_BeforeSpaceCase ==
    /\ pc = "loop"
    /\ stream = <<"(", "a", ")", " ", "T", "j", " ">>
    /\ b_pos = 8
    /\ last_tok.op = <<"T", "j">> /\ last_tok.operands = <<"(", "a", ")", " ">>
    /\ config.text

\* C28: font-map availability. Whenever a show-text operator is
\* dispatched, the current font has an entry in the font map, whatever
\* font-selection operators came before and whatever fonts the sweep of
\* the objects mapped.
C28_FontMapAvailable ==
    ( /\ pc = "loop" /\ b_pos <= Len(stream)
      /\ OperatorFound
      /\ SliceFrom(command, prev_delim) \in TEXT_SHOW_OPS )
    => state.font \in DOMAIN font_map

\* the case of C28 that holds: a show-text operator under a font that the
\* sweep has mapped
C28_MappedFontCase ==
    /\ pc = "loop" /\ b_pos <= Len(stream)
    /\ OperatorFound
    /\ SliceFrom(command, prev_delim) \in TEXT_SHOW_OPS
    /\ state.font = "font5" /\ "font5" \in DOMAIN font_map

\* the operator op stands at s[i..], between white space
IsToken(s, i, op) ==
    /\ i + Len(op) <= Len(s)
    /\ SubSeq(s, i, i + Len(op) - 1) = op
    /\ s[i + Len(op)] \in WHITESPACE
    /\ i = 1 \/ s[i - 1] \in WHITESPACE

\* C19: inline images. Every byte from an inline-image begin operator BI
\* to its end operator EI, the image data after ID included, stands
\* unchanged at the same offset in what mangle_stream returns.
C19_InlineImageKept ==
    pc = "done" =>
        \A i \in 1..Len(stream), j \in 1..Len(stream) :
            ( /\ i < j
              /\ IsToken(stream, i, <<"B", "I">>)
              /\ IsToken(stream, j, <<"E", "I">>) )
            => \A p \in i..(j + 1) : p <= Len(new_b) /\ new_b[p] = stream[p]

\* the case of C19 that holds: with text and paths left alone the inline
\* image comes back as it was
C19_UntouchedCase ==
    /\ pc = "done"
    /\ ~config.text /\ ~config.paths
    /\ IsToken(stream, 1, <<"B", "I">>)
    /\ \E j \in 1..Len(stream) : IsToken(stream, j, <<"E", "I">>)
    /\ new_b = stream

----------------------------------------------------------------------------
(* One Mangler given file after file: assign, mangle, save *)

Configs == {DocConfig(TRUE, TRUE, FALSE, Scale), ContentOff}

Init ==
    /\ pc = "new"
    /\ config \in Configs
    /\ state = NoState /\ font_map = NoFontMap
    /\ pdf = NoPdf /\ hash_name = <<>> /\ event = NoEvent /\ saved = {}
    /\ counter = 0 /\ runs = 0
    /\ updater \in BOOLEAN /\ cancel = FALSE /\ updates = <<>> /\ passes = <<>>
    /\ NumIdle /\ TextIdle /\ LexIdle /\ CMapIdle /\ WalkIdle

Next ==
    \/ SetFilename
    \/ SetFilenameOpenFails
    \/ SetFilenameHashFails
    \/ BeginManglePdf
    \/ BeginManglePdfRaises
    \/ ManglePage
    \/ ManglePageRaises
    \/ CancelRun
    \/ CancelPressed
    \/ EndManglePdf
    \/ Save

Spec == Init /\ [][Next]_vars

\* the name the source document on disk stands for: the digest of its
\* identifier when it has one, else of its page contents in page order
SourceName(filename) ==
    LET src == Disk[filename]
    IN  IF src.id # <<>> THEN <<Md5(<<src.id[1]>>), ".pdf">>
        ELSE <<Md5([k \in 1..Len(src.pages) |-> Stream(src.pages[k].contents.src)]),
               ".pdf">>

\* C8: the output name depends only on the source document. From the
\* assignment on, through every step of mangle_pdf and through save,
\* whatever the random choices, hash_name is the name the source document
\* stands for, and every file saved carries the name of its source.
C8_NameFromSource ==
    /\ pc \in {"held", "pages"} => hash_name = SourceName(pdf.filename)
    /\ \A w \in saved : w.name = SourceName(w.filename)

\* a document without identifier was rewritten by mangle_pdf and saved
C8_Witness ==
    /\ pc = "held" /\ event.op = "save"
    /\ pdf.id = <<>>
    /\ pdf.pages[1].contents.rewrite # 0
    /\ runs >= 1

\* C9: no state leaks between documents. After a document is assigned to a
\* Mangler, whatever it did before, no stream is visited, the current point
\* is undefined, the font is the default font, the page counter is 0 and
\* the font map holds the default entry alone.
C9_FreshState ==
    (event.op = "open" /\ event.result = "assigned") =>
        /\ state.visited_streams = <<>>
        /\ state.point = <<>>
        /\ state.font = "default"
        /\ state.page = 0
        /\ DOMAIN font_map = {"default"}
        /\ font_map["default"] = LATIN_1

\* a document was assigned to a Mangler that had mangled and saved another
C9_Witness ==
    /\ event.op = "open" /\ event.result = "assigned"
    /\ runs >= 1
    /\ \E w \in saved : w.filename # pdf.filename

\* C10: opening a document that does not exist or cannot be opened raises
\* the error at once and leaves the document, hash_name, state and font map
\* of the Mangler as they were.
C10_OpenFailureKeepsAll ==
    [][ (event'.op = "open" /\ (event'.filename \notin DOMAIN Disk
                                \/ ~Disk[event'.filename].valid))
        => /\ event'.result \in {"FileNotFoundError", "PdfError"}
           /\ UNCHANGED <<pdf, hash_name, state, font_map>> ]_vars

\* a missing file was given to a Mangler that holds a mangled document
C10_Witness ==
    /\ event.op = "open" /\ event.result = "FileNotFoundError"
    /\ pc = "held" /\ runs >= 1
    /\ state.visited_streams # <<>>

\* C11: cancellation. When the updater answers at a page boundary that the
\* user has cancelled, mangle_pdf raises InterruptedError there: no later
\* page or form is mangled, and the document is never saved.
C11_CancelStopsRun ==
    [][ /\ (pc = "pages" /\ counter < Len(pdf.pages) /\ updater /\ cancel)
           => /\ pc' = "cancelled"
              /\ event'.result = "InterruptedError"
              /\ UNCHANGED <<pdf, state, saved>>
        /\ pc = "cancelled"
           => /\ saved' = saved
              /\ pdf' = pdf \/ event'.op = "open" ]_vars

\* the user cancelled after the first page of a document of two, and the
\* run was left with the second page as it was opened
C11_Witness ==
    /\ pc = "cancelled"
    /\ counter = 1 /\ Len(pdf.pages) = 2
    /\ state.visited_streams # <<>>
    /\ pdf.pages[2].contents.rewrite = 0
    /\ \A w \in saved : w.filename # pdf.filename

\* mangle_objects has been run on the document held
SweepDone == pc = "pages" \/ (pc = "held" /\ event.op = "mangle_pdf")

\* C14: when the CMap parse of a font fails (a list destination shorter
\* than its range), the font falls back to the baseline Latin map: once
\* the object sweep has been run, the font's identity is mapped to LATIN_1
\* in font_map, so that show-text operators under the font are mangled
\* with it.
C14_LatinFallback ==
    SweepDone =>
        \A n \in DOMAIN pdf.fonts :
            ( /\ "bfrange" \in DOMAIN pdf.fonts[n]
              /\ ~map_unicode(BlockTokens(pdf.fonts[n].bfrange)).ok )
            => n \in DOMAIN font_map /\ font_map[n] = LATIN_1

\* the calls of updater.Update made for the given loop in this run
UpdatesFor(loop) == {k \in 1..Len(updates) : updates[k].loop = loop}

\* C16: progress reporting. When mangle_pdf has returned with an updater
\* installed, Update has been called after each page and after each
\* top-level object of the object sweep.
C16_ProgressCalls ==
    (updater /\ pc = "held" /\ event.op = "mangle_pdf" /\ event.result = "returned") =>
        /\ \A p \in 1..Len(pdf.pages) :
              \E k \in UpdatesFor("pages") : k > 1 /\ updates[k].value = p - 1
        /\ Cardinality(UpdatesFor("objects")) = Len(pdf.objects)

\* the part of C16 that holds: Update is called after each page
C16_PageCallsCase ==
    /\ updater /\ pc = "held" /\ event.op = "mangle_pdf" /\ event.result = "returned"
    /\ Len(pdf.pages) = 2
    /\ updates = <<Update("pages", 0), Update("pages", 0), Update("pages", 1),
                   Update("pages", 2)>>

\* C20: no double mangling. Within one document run no content stream
\* goes through mangle_stream more than once, a form drawn by several
\* pages and a content stream shared by several pages included.
C20_NoDoubleMangling == \A x \in DOMAIN passes : passes[x] <= 1

\* the case of C20 that holds: a form drawn by both pages of a document
C20_SharedFormCase ==
    /\ pc = "held" /\ event.op = "mangle_pdf" /\ event.result = "returned"
    /\ config.content
    /\ "a9" \in DOMAIN passes
    /\ passes["a9"] = 1 /\ passes["a1"] = 1 /\ passes["a2"] = 1

----------------------------------------------------------------------------
(* map_unicode on the bfrange block of a ToUnicode stream *)

\* the codes and the destination texts of the entries
Codes == {0, 1, 2}
Texts == {5, 6}

\* an entry of the block: a range of codes with one destination, or with
\* a list of destinations, at most one for each code
Entries ==
    {[lo |-> l, hi |-> h, listed |-> FALSE, dest |-> <<t>>] :
        l \in Codes, h \in Codes, t \in Texts}
    \cup {[lo |-> l, hi |-> h, listed |-> TRUE, dest |-> d] :
        l \in Codes, h \in Codes, d \in SeqsUpTo(Texts, Cardinality(Codes))}

WellFormed(e) ==
    /\ e.lo <= e.hi
    /\ e.listed => Len(e.dest) <= e.hi - e.lo + 1 /\ Len(e.dest) >= 1

CMapInit ==
    /\ cmap_stream \in SeqsUpTo({e \in Entries : WellFormed(e)}, MaxEntries)
    /\ forward_map = Returned(<<>>)

\* tu.map_unicode(font.ToUnicode.read_bytes())
CallMapUnicode ==
    /\ pc = "call_cmap"
    /\ forward_map' = map_unicode(BlockTokens(cmap_stream))
    /\ pc' = "returned_cmap"
    /\ UNCHANGED <<cmap_stream, numVars, textVars, manglerVars, lexVars, docVars, walkVars>>

SpecCMapInit ==
    pc = "call_cmap" /\ CMapInit /\ NumIdle /\ TextIdle /\ ManglerIdle /\ LexIdle /\ DocIdle
    /\ WalkIdle

SpecCMap == SpecCMapInit /\ [][CallMapUnicode]_vars

----------------------------------------------------------------------------
(* mangle_outlines and mangle_references: the walks of mangle_pdf *)

\* the recursion limit of the interpreter, in calls of the two walks; it
\* is above the depth of the walk of any graph without a cycle
RecursionLimit == 4

\* the /Outlines dictionary of the root, the outline entries, the page and
\* the form XObjects of a document
OutlineRoot == "outlines5"
OutlineEntries == {"outline6", "outline7"}
PageObj == "page3"
FormObjs == {"form8", "form9"}
NoLink == "none"

\* the forms an /XObject resource dictionary can list, in the order of items()
XObjectLists == {<<>>, <<"form8">>, <<"form9">>, <<"form8", "form9">>}

\* the document graphs: /First of the outline root and of each entry,
\* /Next of each entry, and the forms in the resources of the page and of
\* each form
Graphs ==
    [ First   : [{OutlineRoot} \cup OutlineEntries -> OutlineEntries \cup {NoLink}],
      Next    : [OutlineEntries -> OutlineEntries \cup {NoLink}],
      XObject : [{PageObj} \cup FormObjs -> XObjectLists] ]

\* a call under way: the function, its argument, and where in its body it is
Frame(fn, obj, at) == [fn |-> fn, obj |-> obj, at |-> at]

Top == stack[Len(stack)]

\* the entry under the key the call of mangle_outlines is at, if any
Link(frame) ==
    IF frame.at = "First" THEN graph.First[frame.obj]
    ELSE IF frame.obj \in DOMAIN graph.Next THEN graph.Next[frame.obj]
    ELSE NoLink

\* the call moved past the key or the item it is at
Advance(frame) ==
    IF frame.fn = "mangle_references" THEN [frame EXCEPT !.at = @ + 1]
    ELSE [frame EXCEPT !.at = IF @ = "First" THEN "Next" ELSE "return"]

\* the stack with the call on top moved on and a call of the same function
\* on obj entered
Enter(obj) ==
    SubSeq(stack, 1, Len(stack) - 1)
        \o <<Advance(Top), Frame(Top.fn, obj, IF Top.fn = "mangle_references"
                                              THEN 1 ELSE "First")>>

\* the call on top of the stack is about to call itself on another object
AboutToCall ==
    IF Top.fn = "mangle_outlines"
    THEN Top.at # "return" /\ Link(Top) # NoLink
    ELSE Top.at <= Len(graph.XObject[Top.obj])

\* mangle_content(obj) as far as the visited list goes
Visit(obj, visited) ==
    IF config.content /\ \A k \in 1..Len(visited) : visited[k] # obj
    THEN Append(visited, obj) ELSE visited

\* mangle_outlines: entry has the key and the function calls itself on
\* entry.First or entry.Next
MangleOutlinesCall ==
    /\ pc = "walk_outlines"
    /\ AboutToCall /\ Len(stack) < RecursionLimit
    /\ stack' = Enter(Link(Top))
    /\ UNCHANGED <<pc, graph, numVars, textVars, manglerVars, lexVars, docVars, cmapVars>>

\* mangle_outlines: entry has no such key
MangleOutlinesSkip ==
    /\ pc = "walk_outlines"
    /\ Top.at # "return" /\ Link(Top) = NoLink
    /\ stack' = [stack EXCEPT ![Len(stack)] = Advance(Top)]
    /\ UNCHANGED <<pc, graph, numVars, textVars, manglerVars, lexVars, docVars, cmapVars>>

\* mangle_outlines returns; when it returns to mangle_root, mangle_pdf
\* goes on to its page: mangle_content, then mangle_references
MangleOutlinesReturn ==
    /\ pc = "walk_outlines"
    /\ Top.at = "return"
    /\ IF Len(stack) > 1
       THEN /\ stack' = SubSeq(stack, 1, Len(stack) - 1)
            /\ UNCHANGED <<pc, state>>
       ELSE /\ stack' = <<Frame("mangle_references", PageObj, 1)>>
            /\ state' = [state EXCEPT !.visited_streams = Visit(PageObj, @)]
            /\ pc' = "walk_references"
    /\ UNCHANGED <<graph, config, font_map, numVars, textVars, lexVars, docVars, cmapVars>>

\* mangle_references: the next item of the /XObject resources is a form;
\* mangle_content(xobj), then the function calls itself on the form
MangleReferencesCall ==
    /\ pc = "walk_references"
    /\ AboutToCall /\ Len(stack) < RecursionLimit
    /\ LET xobj == graph.XObject[Top.obj][Top.at]
       IN  /\ state' = [state EXCEPT !.visited_streams = Visit(xobj, @)]
           /\ stack' = Enter(xobj)
    /\ UNCHANGED <<pc, graph, config, font_map, numVars, textVars, lexVars, docVars, cmapVars>>

\* mangle_references returns; when it returns to mangle_pdf, the loop over
\* the pages is over and mangle_pdf returns
MangleReferencesReturn ==
    /\ pc = "walk_references"
    /\ ~AboutToCall
    /\ stack' = SubSeq(stack, 1, Len(stack) - 1)
    /\ IF Len(stack) > 1 THEN UNCHANGED <<pc, event>>
       ELSE /\ pc' = "walk_returned"
            /\ event' = Event("mangle_pdf", "", "returned")
    /\ UNCHANGED <<graph, pdf, hash_name, saved, counter, runs, callerVars>>
    /\ UNCHANGED <<numVars, textVars, manglerVars, lexVars, cmapVars>>

\* a call beyond the recursion limit: RecursionError, which neither walk
\* handles (mangle_outlines handles AttributeError), leaves mangle_pdf
WalkRaises ==
    /\ pc \in {"walk_outlines", "walk_references"}
    /\ AboutToCall /\ Len(stack) = RecursionLimit
    /\ pc' = "walk_raised"
    /\ event' = Event("mangle_pdf", "", "RecursionError")
    /\ UNCHANGED <<graph, stack, pdf, hash_name, saved, counter, runs, callerVars>>
    /\ UNCHANGED <<numVars, textVars, manglerVars, lexVars, cmapVars>>

WalkNext ==
    \/ MangleOutlinesCall \/ MangleOutlinesSkip \/ MangleOutlinesReturn
    \/ MangleReferencesCall \/ MangleReferencesReturn \/ WalkRaises

\* mangle_pdf at the call of mangle_root, with mangle.outlines on, on a
\* document of one page
SpecWalkInit ==
    /\ pc = "walk_outlines"
    /\ graph \in Graphs
    /\ stack = <<Frame("mangle_outlines", OutlineRoot, "First")>>
    /\ config \in Configs /\ state = InitialState /\ font_map = InitialFontMap
    /\ NumIdle /\ TextIdle /\ LexIdle /\ DocIdle /\ CMapIdle

SpecWalk == SpecWalkInit /\ [][WalkNext]_vars

\* C26: traversal termination. On every document graph, forms that
\* reference themselves or each other and outline entries whose First and
\* Next links form a cycle included, the walks of mangle_pdf come to their
\* end: mangle_pdf is not left by the recursion limit of the interpreter.
C26_TraversalTerminates == pc # "walk_raised"

\* the case of C26 that holds: a page draws a form that draws another
\* form, and mangle_pdf returns with each visited once
C26_FormChainCase ==
    /\ pc = "walk_returned"
    /\ graph.XObject[PageObj] = <<"form8">>
    /\ graph.XObject["form8"] = <<"form9">>
    /\ state.visited_streams = <<PageObj, "form8", "form9">>

\* an entry whose list holds one destination for each code of its range
Complete(e) == e.listed => Len(e.dest) = e.hi - e.lo + 1

\* C12: bfrange parsing. For a block of entries, single-destination and
\* list-destination in any order, every list complete, the forward map
\* holds every code of every range: under the one destination of its entry,
\* or under the i-th element of the list for the i-th code (the last entry
\* that holds a code decides).
C12_RangesMapped ==
    (pc = "returned_cmap" /\ \A k \in 1..Len(cmap_stream) : Complete(cmap_stream[k])) =>
        /\ forward_map.ok
        /\ \A k \in 1..Len(cmap_stream) :
              LET e == cmap_stream[k]
              IN  \A c \in e.lo..e.hi :
                    (\A j \in (k + 1)..Len(cmap_stream) :
                        c \notin cmap_stream[j].lo..cmap_stream[j].hi)
                    => /\ c \in DOMAIN forward_map.val
                       /\ forward_map.val[c] =
                             IF e.listed THEN e.dest[c - e.lo + 1] ELSE e.dest[1]

\* the case of C12 that holds: a list entry after a single-destination one
C12_ListLastCase ==
    /\ pc = "returned_cmap" /\ forward_map.ok
    /\ Len(cmap_stream) = 2
    /\ ~cmap_stream[1].listed /\ cmap_stream[2].listed
    /\ cmap_stream[2].hi > cmap_stream[2].lo
    /\ DOMAIN forward_map.val = {0, 1, 2}

\* C13: a list destination with fewer elements than its range has codes
\* makes map_unicode raise IndexError, wherever the entry stands in the
\* block.
C13_ShortListRaises ==
    (pc = "returned_cmap" /\ \E k \in 1..Len(cmap_stream) : ~Complete(cmap_stream[k])) =>
        ~forward_map.ok /\ forward_map.val = "IndexError"

\* the case of C13 that holds: the short list is followed by another entry
C13_NotLastCase ==
    /\ pc = "returned_cmap"
    /\ Len(cmap_stream) = 2
    /\ ~Complete(cmap_stream[1]) /\ Complete(cmap_stream[2])
    /\ ~forward_map.ok /\ forward_map.val = "IndexError"

====
